---- MODULE Spec2Model ----
(***************************************************************************)
(* A model of tetra's 2D rendering core.                                   *)
(*                                                                         *)
(*   src/src/graphics/mod.rs   the sprite batcher: the scratch vertex      *)
(*                             data, set_texture, flush                    *)
(*   src/src/graphics/mesh.rs  VertexBuffer / IndexBuffer (Rc handles of   *)
(*                             device buffers), Mesh and Mesh::draw        *)
(*                                                                         *)
(* The device is an external collaborator.  Its observable behaviour is    *)
(* the list of calls it receives: `calls` holds the device calls made by   *)
(* the operation that ran last, in the order they were made.               *)
(***************************************************************************)
EXTENDS Integers, Sequences, FiniteSets, TLC

(***************************************************************************)
(* Bounds of the model.                                                    *)
(***************************************************************************)
\* quads that may be pending in the scratch buffer at once
MaxPending == 2
\* device buffers that are ever allocated (identifiers are never reused)
MaxBuffers == 3
\* vertices in the GeometryBuilder
MaxVertices == 6
\* buffers that are allocated in SpecLife and SpecCompose
MaxAllocations == 2
\* variables of the caller that can hold a VertexBuffer or an IndexBuffer
MaxHandles == 2
\* meshes the caller holds at once
MaxMeshes == 2
\* calls of VertexWinding::flipped in one run
MaxFlips == 60

(***************************************************************************)
(* Program constants.                                                      *)
(***************************************************************************)
VERTEX_STRIDE == 7
INDEX_STRIDE == 6
\* the sprites one batch holds: 1024 in the program, MaxPending here
SPRITE_CAPACITY == MaxPending

\* Option<Texture>::None, and the textures the caller owns
NoTexture == "None"
Textures == {"A", "B"}
\* ctx.graphics.default_texture, used by a mesh that has no texture
DefaultTexture == "default_texture"
\* no shader is ever set: the default shader is the active one
DefaultShader == "default_shader"

\* color::WHITE, as the three components push_vertex stores
WHITE == [r |-> 1, g |-> 1, b |-> 1]

\* inputs: the x position of a pushed quad
QuadInputs == {0, 1}
\* inputs: vertex data (vertices are abstract values) and index data
VertexInputs == {<<11, 12, 13>>, <<21, 22, 23, 24>>}
IndexInputs == {<<0, 1, 2>>, <<0, 1, 2, 2, 3, 0, 0, 1, 2, 3>>}
\* inputs of set_data
UpdateInputs == {<<7>>, <<8, 9>>}
OffsetInputs == {0, 2}
\* inputs of set_draw_range: start and count
\* what the caller gives the GeometryBuilder
RED == [r |-> 1, g |-> 0, b |-> 0]
ColorInputs == {WHITE, RED}
StyleInputs ==
    {[stroke |-> FALSE, width |-> 0], [stroke |-> TRUE, width |-> 1],
     [stroke |-> TRUE, width |-> 0]}
WidthInputs == {0, 1}
RectangleInputs == {[x |-> 0, y |-> 0, width |-> 2, height |-> 1]}
CenterInputs == {<<0, 0>>}
RadiusInputs == {1}
RadiiInputs == {<<2, 1>>}
PolygonInputs == { << <<0, 0>>, <<1, 0>>, <<0, 1>> >>, << <<0, 0>>, <<1, 0>> >> }
PolylineInputs == { << <<0, 0>>, <<1, 1>> >> }
\* 0: the tessellator does not give up; else after that many vertices
FaultInputs == {0, 2}
\* the caller's variables that SpecData uses
DataSlots == {1, 2}
\* BufferUsage
BufferUsages == {"Static", "Dynamic", "Stream"}
RangeInputs == {<<0, 1>>, <<2, 3>>}

Slots == 1..MaxHandles
MeshIds == 1..MaxMeshes
BufferIds == 1..MaxBuffers

VARIABLES
    \* GraphicsContext (mod.rs 21-31)
    texture,        \* Option<Texture>: NoTexture or the bound texture
    vertices,       \* Vec<f32>: the scratch vertex data
    sprite_count,   \* usize
    \* history: for each pending quad, the texture bound when it was pushed
    pushedUnder,
    \* the device
    calls,          \* the device calls of the last operation, in order
    buffers,        \* the device buffers: id -> state, kind, count, data, strong
    \* the caller's values
    handles,        \* the caller's variable -> the buffer id of the
                    \* VertexBuffer or IndexBuffer it holds, 0: none
    meshes,         \* mesh id -> Mesh, or NoMesh
    panicked,       \* a panic has ended the program
    builder,        \* the caller's GeometryBuilder: vertices, indices, color
    params,         \* the caller's DrawParams
    \* observation
    lastOp,         \* the operation that ran last, with its arguments
    scenario        \* progress of the binding sequence A, A, B, B

vars == <<texture, vertices, sprite_count, pushedUnder, calls, buffers,
          handles, meshes, panicked, builder, params, lastOp, scenario>>

batcherVars == <<texture, vertices, sprite_count, pushedUnder>>
resourceVars == <<buffers, handles, meshes>>

(***************************************************************************)
(* Sequences.                                                              *)
(***************************************************************************)
\* the device calls of a sequence that are draw calls of the batcher
BatchDraws(s) == SelectSeq(s, LAMBDA c : c.op = "draw")
\* the device calls of a sequence that are draw calls of a mesh
IsMeshDraw(c) == c.op = "draw_elements" \/ c.op = "draw_arrays"
MeshDraws(s) == SelectSeq(s, IsMeshDraw)

\* the position of the first call of s satisfying Test, 0 if there is none
RECURSIVE FirstIndex(_, _, _)
FirstIndex(s, Test(_), i) ==
    IF i > Len(s) THEN 0
    ELSE IF Test(s[i]) THEN i
    ELSE FirstIndex(s, Test, i + 1)

(***************************************************************************)
(* The sprite batcher (mod.rs).                                            *)
(***************************************************************************)

\* GraphicsContext::new: capacity, and the length of the vertex buffer the
\* batcher uploads to
capacity == SPRITE_CAPACITY
vertex_buffer_count == SPRITE_CAPACITY * 4 * VERTEX_STRIDE

\* mutant: a vertex of eight floats, with an alpha component
push_vertex_with_alpha(vs, x, y, u, v, color) ==
    vs \o <<x, y, u, v, color.r, color.g, color.b, 1>>

\* push_vertex: seven floats are appended to the scratch data
push_vertex(vs, x, y, u, v, color) ==
    vs \o <<x, y, u, v, color.r, color.g, color.b>>

\* a quad of size 1 at (x, 0): four vertices, the corners in order
push_quad_vertices(vs, x) ==
    LET v1 == push_vertex(vs, x, 0, 0, 0, WHITE)
        v2 == push_vertex(v1, x, 1, 0, 1, WHITE)
        v3 == push_vertex(v2, x + 1, 1, 1, 1, WHITE)
    IN  push_vertex(v3, x + 1, 0, 1, 0, WHITE)

\* mutant: flush does not look at the texture
flush_fires_without_texture(count, tex) == count > 0

\* mutant: flush also submits when no sprite is pending
flush_fires_without_sprites(count, tex) == count >= 0 /\ tex # NoTexture

\* the condition under which flush submits anything
flush_fires(count, tex) == count > 0 /\ tex # NoTexture

\* mutant: sprite_count is read after it was reset
flush_index_count_after_reset(count) == 0 * INDEX_STRIDE

\* the number of indices flush draws
flush_index_count(count) == count * INDEX_STRIDE

\* the device calls flush makes when it submits
flush_calls(tex, verts, count, tags) ==
    << [op |-> "set_uniform", shader |-> DefaultShader, name |-> "projection"],
       [op |-> "set_vertex_buffer_data", data |-> verts, offset |-> 0],
       [op |-> "draw", texture |-> tex, shader |-> DefaultShader,
        count |-> flush_index_count(count), pushedUnder |-> tags] >>

\* an arm that does not call flush: no calls, the batcher's state is kept
no_flush(verts, count, tags) ==
    [calls |-> <<>>, vertices |-> verts, sprite_count |-> count,
     pushedUnder |-> tags]

\* flush, as a function of the batcher's state: the calls it makes and the
\* state it leaves
flush_result(tex, verts, count, tags) ==
    IF flush_fires(count, tex)
    THEN [calls |-> flush_calls(tex, verts, count, tags),
          vertices |-> <<>>, sprite_count |-> 0, pushedUnder |-> <<>>]
    ELSE no_flush(verts, count, tags)

\* mutant: the arm for the texture that is already bound is missing
set_texture_case_no_same_arm(bound, t) ==
    IF bound = NoTexture THEN "first" ELSE "rebind"

\* the three arms of the match in set_texture
set_texture_case(bound, t) ==
    IF bound # NoTexture /\ bound = t THEN "same"
    ELSE IF bound = NoTexture THEN "first"
    ELSE "rebind"

\* the binding sequence A, A, B, B with sprites pushed after each binding:
\* stage k means that the first k of
\*   set A, push, set A, push, set B, push, set B, push
\* have happened and nothing else (more pushes after a push are allowed);
\* stage -1 means that the run has left the sequence
ScenarioNext(stage, op, t) ==
    IF stage = -1 THEN -1
    ELSE IF op = "push_quad"
    THEN (IF stage \in {1, 3, 5, 7} THEN stage + 1
          ELSE IF stage \in {2, 4, 6, 8} THEN stage
          ELSE -1)
    ELSE IF op = "set_texture"
    THEN (IF stage \in {0, 2} /\ t = "A" THEN stage + 1
          ELSE IF stage \in {4, 6} /\ t = "B" THEN stage + 1
          ELSE -1)
    ELSE -1

ScenarioStep(op, t, cs) ==
    LET stage == ScenarioNext(scenario.stage, op, t)
    IN  scenario' = [stage |-> stage,
                     draws |-> IF stage = -1 THEN 0
                               ELSE scenario.draws + Len(BatchDraws(cs))]

set_texture(t) ==
    /\ ~panicked
    /\ LET c == set_texture_case(texture, t)
           bound == IF c = "same" THEN texture ELSE t
           f == IF c = "rebind"
                THEN flush_result(bound, vertices, sprite_count, pushedUnder)
                ELSE no_flush(vertices, sprite_count, pushedUnder)
       IN  /\ texture' = bound
           /\ vertices' = f.vertices
           /\ sprite_count' = f.sprite_count
           /\ pushedUnder' = f.pushedUnder
           /\ calls' = f.calls
           /\ ScenarioStep("set_texture", t, f.calls)
    /\ lastOp' = [op |-> "set_texture", texture |-> t]
    /\ UNCHANGED <<resourceVars, panicked, builder, params>>

flush ==
    /\ ~panicked
    /\ LET f == flush_result(texture, vertices, sprite_count, pushedUnder)
       IN  /\ vertices' = f.vertices
           /\ sprite_count' = f.sprite_count
           /\ pushedUnder' = f.pushedUnder
           /\ calls' = f.calls
           /\ ScenarioStep("flush", NoTexture, f.calls)
    /\ lastOp' = [op |-> "flush"]
    /\ UNCHANGED <<texture, resourceVars, panicked, builder, params>>

\* mutant: a quad is enqueued whether or not a texture is bound
may_push_without_texture(count, tex) == count < capacity

\* a quad is enqueued by the draw of a texture, which has bound that texture,
\* and only while the batch is not full
may_push(count, tex) == count < capacity /\ tex # NoTexture

\* one quad is enqueued: four vertices, and sprite_count grows by one
push_quad_when(x, allowed) ==
    /\ ~panicked
    /\ allowed
    /\ vertices' = push_quad_vertices(vertices, x)
    /\ sprite_count' = sprite_count + 1
    /\ pushedUnder' = Append(pushedUnder, texture)
    /\ calls' = <<>>
    /\ ScenarioStep("push_quad", NoTexture, <<>>)
    /\ lastOp' = [op |-> "push_quad", x |-> x]
    /\ UNCHANGED <<texture, resourceVars, panicked, builder, params>>

\* a quad enqueued by the draw of a texture
push_quad(x) == push_quad_when(x, may_push(sprite_count, texture))

\* a quad enqueued through push_vertex alone, which does not look at the
\* bound texture: the caller has not bound one first
push_quad_unbound(x) == push_quad_when(x, sprite_count < capacity)


(***************************************************************************)
(* Device buffers and their Rc handles (mesh.rs 108-241).                  *)
(***************************************************************************)
FreeBuffer ==
    [state |-> "free", kind |-> "none", count |-> 0, data |-> <<>>, strong |-> 0]

\* the identifier the device gives the next buffer, 0 when none is left
NextBufferId(bufs) ==
    IF \E b \in BufferIds : bufs[b].state = "free"
    THEN CHOOSE b \in BufferIds :
            /\ bufs[b].state = "free"
            /\ \A c \in BufferIds : bufs[c].state = "free" => b <= c
    ELSE 0

\* data written over old at offset (in elements)
Overwrite(old, offset, data) ==
    [i \in 1..Len(old) |->
        IF i > offset /\ i <= offset + Len(data) THEN data[i - offset] ELSE old[i]]

\* new_vertex_buffer / new_index_buffer: count elements, contents not yet set
device_new_buffer(bufs, id, kind, count) ==
    [bufs EXCEPT ![id] = [state |-> "live", kind |-> kind, count |-> count,
                          data |-> [i \in 1..count |-> 0], strong |-> 0]]

\* set_vertex_buffer_data / set_index_buffer_data: in bounds, or a panic
device_data_in_bounds(bufs, id, data, offset) ==
    offset + Len(data) <= bufs[id].count

device_set_buffer_data(bufs, id, data, offset) ==
    [bufs EXCEPT ![id].data = Overwrite(@, offset, data)]

\* the device resource is released when the raw buffer is dropped
device_release(bufs, id) ==
    [bufs EXCEPT ![id].state = "released", ![id].count = 0, ![id].data = <<>>]

\* Rc::new, Rc::clone and the drop of an Rc
RcNew(bufs, id) == [bufs EXCEPT ![id].strong = 1]

RcClone(bufs, id) == [bufs EXCEPT ![id].strong = @ + 1]

RcDrop(bufs, id) ==
    IF bufs[id].strong = 1
    THEN device_release([bufs EXCEPT ![id].strong = 0], id)
    ELSE [bufs EXCEPT ![id].strong = @ - 1]

\* the clone and the drop of an Option of a handle
RcCloneOption(bufs, id) == IF id = 0 THEN bufs ELSE RcClone(bufs, id)

RcDropOption(bufs, id) == IF id = 0 THEN bufs ELSE RcDrop(bufs, id)

\* the caller's variable s holds a VertexBuffer / an IndexBuffer
HoldsVertex(s) == handles[s] # 0 /\ buffers[handles[s]].kind = "vertex"
HoldsIndex(s) == handles[s] # 0 /\ buffers[handles[s]].kind = "index"

\* what the handle in s shows of its buffer
Contents(s) == buffers[handles[s]].data

\* every operation other than set_texture and push_quad leaves the
\* binding sequence
OtherOp(op, cs) == ScenarioStep(op, NoTexture, cs)

\* mutant: the initial contents are not uploaded
with_usage_without_upload(bufs, id, kind, data) ==
    RcNew(device_new_buffer(bufs, id, kind, Len(data)), id)

\* VertexBuffer::with_usage / IndexBuffer::with_usage on the buffers
with_usage(bufs, id, kind, data) ==
    RcNew(device_set_buffer_data(device_new_buffer(bufs, id, kind, Len(data)),
                                 id, data, 0), id)

\* VertexBuffer::with_usage; ok is whether the device can allocate
VertexBufferWithUsage(s, data, usage, ok) ==
    /\ ~panicked
    /\ handles[s] = 0
    /\ NextBufferId(buffers) # 0
    /\ LET id == NextBufferId(buffers)
       IN  IF ok
           THEN /\ buffers' = with_usage(buffers, id, "vertex", data)
                /\ handles' = [handles EXCEPT ![s] = id]
                /\ calls' = << [op |-> "new_vertex_buffer", count |-> Len(data),
                                usage |-> usage],
                               [op |-> "set_vertex_buffer_data", data |-> data,
                                offset |-> 0] >>
           ELSE /\ UNCHANGED <<buffers, handles>>
                /\ calls' = << [op |-> "new_vertex_buffer", count |-> Len(data),
                                usage |-> usage] >>
    /\ lastOp' = [op |-> "VertexBuffer::with_usage", slot |-> s, data |-> data,
                  usage |-> usage,
                  result |-> IF ok THEN "Ok" ELSE "PlatformError"]
    /\ OtherOp("VertexBuffer::with_usage", <<>>)
    /\ UNCHANGED <<batcherVars, meshes, panicked, builder, params>>

\* VertexBuffer::new
VertexBufferNew(s, data, ok) == VertexBufferWithUsage(s, data, "Dynamic", ok)

\* IndexBuffer::with_usage
IndexBufferWithUsage(s, data, usage, ok) ==
    /\ ~panicked
    /\ handles[s] = 0
    /\ NextBufferId(buffers) # 0
    /\ LET id == NextBufferId(buffers)
       IN  IF ok
           THEN /\ buffers' = with_usage(buffers, id, "index", data)
                /\ handles' = [handles EXCEPT ![s] = id]
                /\ calls' = << [op |-> "new_index_buffer", count |-> Len(data),
                                usage |-> usage],
                               [op |-> "set_index_buffer_data", data |-> data,
                                offset |-> 0] >>
           ELSE /\ UNCHANGED <<buffers, handles>>
                /\ calls' = << [op |-> "new_index_buffer", count |-> Len(data),
                                usage |-> usage] >>
    /\ lastOp' = [op |-> "IndexBuffer::with_usage", slot |-> s, data |-> data,
                  usage |-> usage,
                  result |-> IF ok THEN "Ok" ELSE "PlatformError"]
    /\ OtherOp("IndexBuffer::with_usage", <<>>)
    /\ UNCHANGED <<batcherVars, meshes, panicked, builder, params>>

\* IndexBuffer::new
IndexBufferNew(s, data, ok) == IndexBufferWithUsage(s, data, "Dynamic", ok)

\* mutant: the clone of a handle copies the buffer
handle_clone_copies_buffer(bufs, id) ==
    LET new == NextBufferId(bufs)
    IN  IF new = 0
        THEN [buffers |-> RcClone(bufs, id), handle |-> id]
        ELSE [buffers |-> [bufs EXCEPT ![new] = [bufs[id] EXCEPT !.strong = 1]],
              handle |-> new]

\* #[derive(Clone)] on a struct that holds an Rc: the Rc is cloned, and the
\* clone refers to the same buffer
handle_clone(bufs, id) == [buffers |-> RcClone(bufs, id), handle |-> id]

\* VertexBuffer::clone and IndexBuffer::clone, into the caller's variable dst
HandleClone(src, dst) ==
    /\ ~panicked
    /\ handles[src] # 0 /\ handles[dst] = 0
    /\ LET c == handle_clone(buffers, handles[src])
       IN  /\ buffers' = c.buffers
           /\ handles' = [handles EXCEPT ![dst] = c.handle]
    /\ calls' = <<>>
    /\ lastOp' = [op |-> "clone", slot |-> src, dst |-> dst]
    /\ OtherOp("clone", <<>>)
    /\ UNCHANGED <<batcherVars, meshes, panicked, builder, params>>

\* the handle in s goes out of scope
HandleDrop(s) ==
    /\ ~panicked
    /\ handles[s] # 0
    /\ buffers' = RcDrop(buffers, handles[s])
    /\ handles' = [handles EXCEPT ![s] = 0]
    /\ calls' = <<>>
    /\ lastOp' = [op |-> "drop", slot |-> s]
    /\ OtherOp("drop", <<>>)
    /\ UNCHANGED <<batcherVars, meshes, panicked, builder, params>>

\* mutant: the offset is not passed on
set_data_at_start(bufs, id, data, offset) ==
    IF device_data_in_bounds(bufs, id, data, 0)
    THEN [buffers |-> device_set_buffer_data(bufs, id, data, 0),
          panicked |-> FALSE]
    ELSE [buffers |-> bufs, panicked |-> TRUE]

\* set_data of either handle: the device writes, or panics out of bounds
set_data(bufs, id, data, offset) ==
    IF device_data_in_bounds(bufs, id, data, offset)
    THEN [buffers |-> device_set_buffer_data(bufs, id, data, offset),
          panicked |-> FALSE]
    ELSE [buffers |-> bufs, panicked |-> TRUE]

VertexBufferSetData(s, data, offset) ==
    /\ ~panicked
    /\ HoldsVertex(s)
    /\ LET r == set_data(buffers, handles[s], data, offset)
       IN  /\ buffers' = r.buffers
           /\ panicked' = r.panicked
    /\ calls' = << [op |-> "set_vertex_buffer_data", data |-> data,
                    offset |-> offset] >>
    /\ lastOp' = [op |-> "VertexBuffer::set_data", slot |-> s, data |-> data,
                  offset |-> offset]
    /\ OtherOp("VertexBuffer::set_data", <<>>)
    /\ UNCHANGED <<batcherVars, handles, meshes, builder, params>>

IndexBufferSetData(s, data, offset) ==
    /\ ~panicked
    /\ HoldsIndex(s)
    /\ LET r == set_data(buffers, handles[s], data, offset)
       IN  /\ buffers' = r.buffers
           /\ panicked' = r.panicked
    /\ calls' = << [op |-> "set_index_buffer_data", data |-> data,
                    offset |-> offset] >>
    /\ lastOp' = [op |-> "IndexBuffer::set_data", slot |-> s, data |-> data,
                  offset |-> offset]
    /\ OtherOp("IndexBuffer::set_data", <<>>)
    /\ UNCHANGED <<batcherVars, handles, meshes, builder, params>>

(***************************************************************************)
(* Mesh (mesh.rs 281-553).                                                 *)
(***************************************************************************)
\* Option<DrawRange>
NoRange == [some |-> FALSE, start |-> 0, count |-> 0]
SomeRange(start, count) == [some |-> TRUE, start |-> start, count |-> count]

\* the value of a mesh variable of the caller that holds no mesh
NoMesh ==
    [vertex_buffer |-> 0, index_buffer |-> 0, texture |-> NoTexture,
     draw_range |-> NoRange]

\* Mesh::new and Mesh::indexed
mesh_new(vb) ==
    [vertex_buffer |-> vb, index_buffer |-> 0, texture |-> NoTexture,
     draw_range |-> NoRange]

mesh_indexed(vb, ib) ==
    [vertex_buffer |-> vb, index_buffer |-> ib, texture |-> NoTexture,
     draw_range |-> NoRange]

\* the handle is moved out of the caller's variable into the mesh
MeshNew(s, m) ==
    /\ ~panicked
    /\ HoldsVertex(s) /\ meshes[m] = NoMesh
    /\ meshes' = [meshes EXCEPT ![m] = mesh_new(handles[s])]
    /\ handles' = [handles EXCEPT ![s] = 0]
    /\ calls' = <<>>
    /\ lastOp' = [op |-> "Mesh::new", mesh |-> m]
    /\ OtherOp("Mesh::new", <<>>)
    /\ UNCHANGED <<batcherVars, buffers, panicked, builder, params>>

MeshIndexed(s, i, m) ==
    /\ ~panicked
    /\ HoldsVertex(s) /\ HoldsIndex(i) /\ meshes[m] = NoMesh
    /\ meshes' = [meshes EXCEPT ![m] = mesh_indexed(handles[s], handles[i])]
    /\ handles' = [handles EXCEPT ![s] = 0, ![i] = 0]
    /\ calls' = <<>>
    /\ lastOp' = [op |-> "Mesh::indexed", mesh |-> m]
    /\ OtherOp("Mesh::indexed", <<>>)
    /\ UNCHANGED <<batcherVars, buffers, panicked, builder, params>>

\* #[derive(Clone)] on Mesh: every field is cloned
mesh_clone(bufs, ms, src, dst) ==
    [buffers |-> RcCloneOption(RcClone(bufs, ms[src].vertex_buffer),
                               ms[src].index_buffer),
     meshes |-> [ms EXCEPT ![dst] = ms[src]]]

MeshClone(src, dst) ==
    /\ ~panicked
    /\ meshes[src] # NoMesh /\ meshes[dst] = NoMesh
    /\ LET c == mesh_clone(buffers, meshes, src, dst)
       IN  /\ buffers' = c.buffers
           /\ meshes' = c.meshes
    /\ calls' = <<>>
    /\ lastOp' = [op |-> "Mesh::clone", mesh |-> src, dst |-> dst]
    /\ OtherOp("Mesh::clone", <<>>)
    /\ UNCHANGED <<batcherVars, handles, panicked, builder, params>>

\* the drop of a Mesh drops its handles
MeshDrop(m) ==
    /\ ~panicked
    /\ meshes[m] # NoMesh
    /\ buffers' = RcDropOption(RcDrop(buffers, meshes[m].vertex_buffer),
                               meshes[m].index_buffer)
    /\ meshes' = [meshes EXCEPT ![m] = NoMesh]
    /\ calls' = <<>>
    /\ lastOp' = [op |-> "Mesh::drop", mesh |-> m]
    /\ OtherOp("Mesh::drop", <<>>)
    /\ UNCHANGED <<batcherVars, handles, panicked, builder, params>>

\* mutant: the meshes that shared the vertex buffer all get the new one
mesh_set_vertex_buffer_aliased(bufs, ms, m, vb) ==
    [buffers |-> RcDrop(bufs, ms[m].vertex_buffer),
     meshes |-> [n \in DOMAIN ms |->
                    IF ms[n].vertex_buffer = ms[m].vertex_buffer
                    THEN [ms[n] EXCEPT !.vertex_buffer = vb]
                    ELSE ms[n]]]

\* self.vertex_buffer = vertex_buffer: the new handle is moved in, the
\* handle that was there is dropped
mesh_set_vertex_buffer(bufs, ms, m, vb) ==
    [buffers |-> RcDrop(bufs, ms[m].vertex_buffer),
     meshes |-> [ms EXCEPT ![m].vertex_buffer = vb]]

MeshSetVertexBuffer(m, s) ==
    /\ ~panicked
    /\ meshes[m] # NoMesh /\ HoldsVertex(s)
    /\ LET r == mesh_set_vertex_buffer(buffers, meshes, m, handles[s])
       IN  /\ buffers' = r.buffers
           /\ meshes' = r.meshes
    /\ handles' = [handles EXCEPT ![s] = 0]
    /\ calls' = <<>>
    /\ lastOp' = [op |-> "Mesh::set_vertex_buffer", mesh |-> m]
    /\ OtherOp("Mesh::set_vertex_buffer", <<>>)
    /\ UNCHANGED <<batcherVars, panicked, builder, params>>

\* mutant: the index buffer that was there is not dropped
mesh_set_index_buffer_leaks(bufs, ms, m, ib) ==
    [buffers |-> bufs,
     meshes |-> [ms EXCEPT ![m].index_buffer = ib]]

\* self.index_buffer = Some(index_buffer), and = None for ib = 0
mesh_set_index_buffer(bufs, ms, m, ib) ==
    [buffers |-> RcDropOption(bufs, ms[m].index_buffer),
     meshes |-> [ms EXCEPT ![m].index_buffer = ib]]

MeshSetIndexBuffer(m, i) ==
    /\ ~panicked
    /\ meshes[m] # NoMesh /\ HoldsIndex(i)
    /\ LET r == mesh_set_index_buffer(buffers, meshes, m, handles[i])
       IN  /\ buffers' = r.buffers
           /\ meshes' = r.meshes
    /\ handles' = [handles EXCEPT ![i] = 0]
    /\ calls' = <<>>
    /\ lastOp' = [op |-> "Mesh::set_index_buffer", mesh |-> m]
    /\ OtherOp("Mesh::set_index_buffer", <<>>)
    /\ UNCHANGED <<batcherVars, panicked, builder, params>>

MeshResetIndexBuffer(m) ==
    /\ ~panicked
    /\ meshes[m] # NoMesh
    /\ LET r == mesh_set_index_buffer(buffers, meshes, m, 0)
       IN  /\ buffers' = r.buffers
           /\ meshes' = r.meshes
    /\ calls' = <<>>
    /\ lastOp' = [op |-> "Mesh::reset_index_buffer", mesh |-> m]
    /\ OtherOp("Mesh::reset_index_buffer", <<>>)
    /\ UNCHANGED <<batcherVars, handles, panicked, builder, params>>

\* Mesh::set_texture(Some) and Mesh::reset_texture (t = NoTexture)
mesh_set_texture(ms, m, t) == [ms EXCEPT ![m].texture = t]

MeshSetTexture(m, t) ==
    /\ ~panicked
    /\ meshes[m] # NoMesh
    /\ meshes' = mesh_set_texture(meshes, m, t)
    /\ calls' = <<>>
    /\ lastOp' = [op |-> "Mesh::set_texture", mesh |-> m]
    /\ OtherOp("Mesh::set_texture", <<>>)
    /\ UNCHANGED <<batcherVars, buffers, handles, panicked, builder, params>>

MeshResetTexture(m) ==
    /\ ~panicked
    /\ meshes[m] # NoMesh
    /\ meshes' = mesh_set_texture(meshes, m, NoTexture)
    /\ calls' = <<>>
    /\ lastOp' = [op |-> "Mesh::reset_texture", mesh |-> m]
    /\ OtherOp("Mesh::reset_texture", <<>>)
    /\ UNCHANGED <<batcherVars, buffers, handles, panicked, builder, params>>

\* Mesh::set_draw_range and Mesh::reset_draw_range
mesh_set_draw_range(ms, m, r) == [ms EXCEPT ![m].draw_range = r]

MeshSetDrawRange(m, start, count) ==
    /\ ~panicked
    /\ meshes[m] # NoMesh
    /\ meshes' = mesh_set_draw_range(meshes, m, SomeRange(start, count))
    /\ calls' = <<>>
    /\ lastOp' = [op |-> "Mesh::set_draw_range", mesh |-> m, start |-> start,
                  count |-> count]
    /\ OtherOp("Mesh::set_draw_range", <<>>)
    /\ UNCHANGED <<batcherVars, buffers, handles, panicked, builder, params>>

MeshResetDrawRange(m) ==
    /\ ~panicked
    /\ meshes[m] # NoMesh
    /\ meshes' = mesh_set_draw_range(meshes, m, NoRange)
    /\ calls' = <<>>
    /\ lastOp' = [op |-> "Mesh::reset_draw_range", mesh |-> m]
    /\ OtherOp("Mesh::reset_draw_range", <<>>)
    /\ UNCHANGED <<batcherVars, buffers, handles, panicked, builder, params>>

\* the texture a mesh is drawn with
mesh_draw_texture(mesh) ==
    IF mesh.texture = NoTexture THEN DefaultTexture ELSE mesh.texture

\* mutant: the draw range is not used
mesh_draw_range_ignored(mesh, full) == <<0, full>>

\* the range a draw requests: the draw range if set, else all of the buffer
mesh_draw_range(mesh, full) ==
    IF mesh.draw_range.some
    THEN <<mesh.draw_range.start, mesh.draw_range.count>>
    ELSE <<0, full>>

\* mutant: the index buffer is not used
mesh_draw_call_not_indexed(mesh, bufs, pending) ==
    LET r == mesh_draw_range(mesh, bufs[mesh.vertex_buffer].count)
    IN  [op |-> "draw_arrays", vertex_buffer |-> mesh.vertex_buffer,
         index_buffer |-> 0,
         texture |-> mesh_draw_texture(mesh), shader |-> DefaultShader,
         start |-> r[1], count |-> r[2], pending |-> pending]

\* the draw call of Mesh::draw; pending is the batcher's sprite_count at the
\* time of the call
mesh_draw_call(mesh, bufs, pending) ==
    IF mesh.index_buffer # 0
    THEN LET r == mesh_draw_range(mesh, bufs[mesh.index_buffer].count)
         IN  [op |-> "draw_elements", vertex_buffer |-> mesh.vertex_buffer,
              index_buffer |-> mesh.index_buffer,
              texture |-> mesh_draw_texture(mesh), shader |-> DefaultShader,
              start |-> r[1], count |-> r[2], pending |-> pending]
    ELSE LET r == mesh_draw_range(mesh, bufs[mesh.vertex_buffer].count)
         IN  [op |-> "draw_arrays", vertex_buffer |-> mesh.vertex_buffer,
              index_buffer |-> 0,
              texture |-> mesh_draw_texture(mesh), shader |-> DefaultShader,
              start |-> r[1], count |-> r[2], pending |-> pending]

\* mutant: Mesh::draw does not flush the batcher
mesh_draw_without_flush(tex, verts, count, tags) == no_flush(verts, count, tags)

\* the flush at the start of Mesh::draw
mesh_draw_flush(tex, verts, count, tags) == flush_result(tex, verts, count, tags)

\* A Mat4 of vek, as far as it acts on the points of the plane: the affine
\* map x' = a x + b y + tx, y' = c x + d y + ty.  Angles are quarter turns.
Mat(a, b, c, d, tx, ty) == [a |-> a, b |-> b, c |-> c, d |-> d, tx |-> tx, ty |-> ty]

\* m * n: n is applied to a point first, then m
MatMul(m, n) ==
    Mat(m.a * n.a + m.b * n.c, m.a * n.b + m.b * n.d,
        m.c * n.a + m.d * n.c, m.c * n.b + m.d * n.d,
        m.a * n.tx + m.b * n.ty + m.tx, m.c * n.tx + m.d * n.ty + m.ty)

MatApply(m, v) ==
    <<m.a * v[1] + m.b * v[2] + m.tx, m.c * v[1] + m.d * v[2] + m.ty>>

\* Mat4::translation_2d, Mat4::scaling_3d, Mat4::rotation_z
translation_2d(v) == Mat(1, 0, 0, 1, v[1], v[2])
scaling_3d(v) == Mat(v[1], 0, 0, v[2], 0, 0)
rotation_z(turns) ==
    CASE turns % 4 = 0 -> Mat(1, 0, 0, 1, 0, 0)
      [] turns % 4 = 1 -> Mat(0, -1, 1, 0, 0, 0)
      [] turns % 4 = 2 -> Mat(-1, 0, 0, -1, 0, 0)
      [] turns % 4 = 3 -> Mat(0, 1, -1, 0, 0, 0)

\* the methods that change a matrix in place: the operation is applied
\* after what the matrix already does
translate_2d(m, v) == MatMul(translation_2d(v), m)
scale_3d(m, v) == MatMul(scaling_3d(v), m)
rotate_z(m, turns) == MatMul(rotation_z(turns), m)

\* ctx.graphics.projection_matrix (ortho for a window of 2 by 2) and
\* ctx.graphics.transform_matrix
projection_matrix == Mat(1, 0, 0, -1, -1, 1)
transform_matrix == Mat(2, 0, 0, 2, 3, 0)

\* what Mesh::draw reads of its params, and the params of a draw that is
\* given none
DrawInputs(position, scale, origin, rotation) ==
    [position |-> position, scale |-> scale, origin |-> origin,
     rotation |-> rotation]
DefaultDrawInputs == DrawInputs(<<0, 0>>, <<1, 1>>, <<0, 0>>, 0)

\* mutant: the rotation is applied before the scale
mesh_draw_transform_rotate_first(p) ==
    LET t0 == translation_2d(<<0 - p.origin[1], 0 - p.origin[2]>>)
        t1 == rotate_z(t0, p.rotation)
        t2 == scale_3d(t1, p.scale)
    IN  translate_2d(t2, p.position)

\* the model transform of Mesh::draw
mesh_draw_transform(p) ==
    LET t0 == translation_2d(<<0 - p.origin[1], 0 - p.origin[2]>>)
        t1 == scale_3d(t0, p.scale)
        t2 == rotate_z(t1, p.rotation)
    IN  translate_2d(t2, p.position)

\* the matrix Mesh::draw gives to set_default_uniforms
mesh_draw_uniform(p) ==
    MatMul(MatMul(projection_matrix, transform_matrix), mesh_draw_transform(p))

\* mutant: the result of set_default_uniforms is propagated, as with `?`
uniforms_result_propagated(uniforms_ok) == uniforms_ok

\* let _ = shader.set_default_uniforms(..): whether draw goes on to its draw
\* call, given the result of set_default_uniforms
uniforms_result_discarded(uniforms_ok) == TRUE

\* Mesh::draw; uniforms_ok is the result of set_default_uniforms
MeshDrawWith(m, p, uniforms_ok) ==
    /\ ~panicked
    /\ meshes[m] # NoMesh
    /\ LET f == mesh_draw_flush(texture, vertices, sprite_count, pushedUnder)
           u == [op |-> "set_default_uniforms", shader |-> DefaultShader,
                 transform |-> mesh_draw_uniform(p), ok |-> uniforms_ok]
           d == mesh_draw_call(meshes[m], buffers, f.sprite_count)
       IN  /\ vertices' = f.vertices
           /\ sprite_count' = f.sprite_count
           /\ pushedUnder' = f.pushedUnder
           /\ calls' = f.calls \o <<u>> \o
                        (IF uniforms_result_discarded(uniforms_ok)
                         THEN <<d>> ELSE <<>>)
           /\ OtherOp("Mesh::draw", f.calls)
    /\ lastOp' = [op |-> "Mesh::draw", mesh |-> m, params |-> p]
    /\ UNCHANGED <<texture, resourceVars, panicked, builder, params>>

\* Mesh::draw with the default DrawParams
MeshDraw(m, uniforms_ok) == MeshDrawWith(m, DefaultDrawInputs, uniforms_ok)

(***************************************************************************)
(* GeometryBuilder (mesh.rs 580-899).  The tessellators and BuffersBuilder *)
(* are lyon's; they write into the vertices and indices of the builder.    *)
(***************************************************************************)
\* ShapeStyle
Fill == [stroke |-> FALSE, width |-> 0]
Stroke(width) == [stroke |-> TRUE, width |-> width]

\* mutant: the width is passed as the height too
RectangleOutlineSquare(r) ==
    << <<r.x, r.y>>, <<r.x + r.width, r.y>>,
       <<r.x + r.width, r.y + r.width>>, <<r.x, r.y + r.width>> >>

\* the outline of a rectangle, and of the curved shapes once flattened
RectangleOutline(r) ==
    << <<r.x, r.y>>, <<r.x + r.width, r.y>>,
       <<r.x + r.width, r.y + r.height>>, <<r.x, r.y + r.height>> >>

EllipseOutline(center, radii) ==
    << <<center[1] + radii[1], center[2]>>, <<center[1], center[2] + radii[2]>>,
       <<center[1] - radii[1], center[2]>>, <<center[1], center[2] - radii[2]>> >>

\* the vertices of a tessellation, as positions, and its triangles, as
\* indices from 0: a fill is a fan over the outline, a stroke has two
\* vertices for each point of the outline, the line width apart, and two
\* triangles for each segment
TessPositions(outline, stroke, line_width) ==
    IF stroke
    THEN [i \in 1..(2 * Len(outline)) |->
             <<outline[(i + 1) \div 2][1], outline[(i + 1) \div 2][2],
               (i % 2) * line_width>>]
    ELSE outline

Segments(n, closed) == IF closed THEN n ELSE n - 1

TessIndices(n, closed, stroke) ==
    IF stroke
    THEN [i \in 1..(6 * Segments(n, closed)) |->
             LET seg == (i - 1) \div 6
                 a == 2 * seg
                 b == 2 * ((seg + 1) % n)
             IN  <<a, a + 1, b, a + 1, b + 1, b>>[((i - 1) % 6) + 1]]
    ELSE [i \in 1..(3 * (n - 2)) |->
             LET tri == (i - 1) \div 3
             IN  <<0, tri + 1, tri + 2>>[((i - 1) % 3) + 1]]

\* mutant: the vertex is white
new_vertex_white(position, color) ==
    [position |-> position, uv |-> <<0, 0>>, color |-> WHITE]

\* TetraVertexConstructor(color).new_vertex
new_vertex(position, color) ==
    [position |-> position, uv |-> <<0, 0>>, color |-> color]

\* BuffersBuilder: vertices are appended, the indices of a triangle are
\* appended with the number of vertices at begin_geometry added
buffers_add(data, positions, indices, color, vertex_offset) ==
    [vertices |-> data.vertices \o
                    [i \in 1..Len(positions) |-> new_vertex(positions[i], color)],
     indices |-> data.indices \o
                    [i \in 1..Len(indices) |-> indices[i] + vertex_offset]]

\* BuffersBuilder::abort_geometry: back to the lengths at begin_geometry
abort_geometry(data, vertex_offset, index_offset) ==
    [vertices |-> SubSeq(data.vertices, 1, vertex_offset),
     indices |-> SubSeq(data.indices, 1, index_offset)]

\* a tessellation into data.  Whether the tessellator gives up is not
\* decided by the code of the builder: with fault > 0 it gives up after it
\* has written that many vertices, and lyon's abort_geometry takes them back
Tessellate(data, color, outline, closed, stroke, line_width, fault) ==
    LET vo == Len(data.vertices)
        io == Len(data.indices)
        ps == TessPositions(outline, stroke, line_width)
        is == TessIndices(Len(outline), closed, stroke)
        written == IF fault > Len(ps) THEN Len(ps) ELSE fault
        partial == buffers_add(data, SubSeq(ps, 1, written),
                               SelectSeq(is, LAMBDA i : i < written), color, vo)
    IN  IF fault > 0
        THEN [ok |-> FALSE, data |-> abort_geometry(partial, vo, io)]
        ELSE [ok |-> TRUE, data |-> buffers_add(data, ps, is, color, vo)]

\* GeometryBuilder::new
geometry_builder_new == [vertices |-> <<>>, indices |-> <<>>, color |-> WHITE]

\* StrokeOptions::default().with_line_width(width)
stroke_line_width(width) == width

\* mutant: a failed call empties the builder
shape_result_cleared_on_error(b, t) ==
    IF t.ok
    THEN [builder |-> [b EXCEPT !.vertices = t.data.vertices,
                                !.indices = t.data.indices],
          result |-> "Ok"]
    ELSE [builder |-> [b EXCEPT !.vertices = <<>>, !.indices = <<>>],
          result |-> "TessellationError"]

\* mutant: the tessellator writes into fresh buffers that replace self.data
shape_result_replaces_data(b, t) ==
    [builder |-> [b EXCEPT
         !.vertices = SubSeq(t.data.vertices, Len(b.vertices) + 1,
                             Len(t.data.vertices)),
         !.indices = SubSeq(t.data.indices, Len(b.indices) + 1,
                            Len(t.data.indices))],
     result |-> IF t.ok THEN "Ok" ELSE "TessellationError"]

\* the end of a shape call: self.data is what the tessellator has left in
\* it, the error of the tessellator is returned with `?`
shape_result(b, t) ==
    [builder |-> [b EXCEPT !.vertices = t.data.vertices,
                           !.indices = t.data.indices],
     result |-> IF t.ok THEN "Ok" ELSE "TessellationError"]

\* a shape call: a BuffersBuilder over self.data with the current color,
\* then the fill or the stroke tessellator, by the style
ShapeCall(op, style, outline, closed, fault) ==
    /\ ~panicked
    /\ LET t == Tessellate([vertices |-> builder.vertices,
                            indices |-> builder.indices],
                           builder.color, outline, closed, style.stroke,
                           stroke_line_width(style.width), fault)
           r == shape_result(builder, t)
       IN  /\ builder' = r.builder
           /\ lastOp' = [op |-> op, style |-> style, outline |-> outline,
                         result |-> r.result]
    /\ Len(builder'.vertices) <= MaxVertices
    /\ calls' = <<>>
    /\ OtherOp(op, <<>>)
    /\ UNCHANGED <<batcherVars, resourceVars, panicked, params>>

GeometryRectangle(style, rectangle, fault) ==
    ShapeCall("GeometryBuilder::rectangle", style, RectangleOutline(rectangle),
              TRUE, fault)

GeometryRoundedRectangle(style, rectangle, fault) ==
    ShapeCall("GeometryBuilder::rounded_rectangle", style,
              RectangleOutline(rectangle), TRUE, fault)

GeometryCircle(style, center, radius, fault) ==
    ShapeCall("GeometryBuilder::circle", style,
              EllipseOutline(center, <<radius, radius>>), TRUE, fault)

GeometryEllipse(style, center, radii, fault) ==
    ShapeCall("GeometryBuilder::ellipse", style, EllipseOutline(center, radii),
              TRUE, fault)

GeometryPolygon(style, points, fault) ==
    ShapeCall("GeometryBuilder::polygon", style, points, TRUE, fault)

GeometryPolyline(stroke_width, points, fault) ==
    ShapeCall("GeometryBuilder::polyline", Stroke(stroke_width), points, FALSE,
              fault)

\* GeometryBuilder::set_color
geometry_set_color(b, color) == [b EXCEPT !.color = color]

GeometrySetColor(color) ==
    /\ ~panicked
    /\ builder' = geometry_set_color(builder, color)
    /\ lastOp' = [op |-> "GeometryBuilder::set_color", color |-> color]
    /\ calls' = <<>>
    /\ OtherOp("GeometryBuilder::set_color", <<>>)
    /\ UNCHANGED <<batcherVars, resourceVars, panicked, params>>

\* mutant: the indices are not cleared
geometry_clear_keeps_indices(b) == [b EXCEPT !.vertices = <<>>]

\* mutant: the builder is as new
geometry_clear_resets_color(b) == geometry_builder_new

\* GeometryBuilder::clear
geometry_clear(b) == [b EXCEPT !.vertices = <<>>, !.indices = <<>>]

GeometryClear ==
    /\ ~panicked
    /\ builder' = geometry_clear(builder)
    /\ lastOp' = [op |-> "GeometryBuilder::clear",
                  cleared |-> Len(builder.vertices)]
    /\ calls' = <<>>
    /\ OtherOp("GeometryBuilder::clear", <<>>)
    /\ UNCHANGED <<batcherVars, resourceVars, panicked, params>>

\* mutant: the vertex buffer stays allocated when IndexBuffer::new fails
build_buffers_keeps_vertex_buffer(bufs, b, okv, oki) ==
    LET vb == NextBufferId(bufs)
        withV == with_usage(bufs, vb, "vertex", b.vertices)
        ib == NextBufferId(withV)
    IN  IF ~okv
        THEN [ok |-> FALSE, buffers |-> bufs, vertex_buffer |-> 0,
              index_buffer |-> 0]
        ELSE IF ~oki
        THEN [ok |-> FALSE, buffers |-> withV, vertex_buffer |-> 0,
              index_buffer |-> 0]
        ELSE [ok |-> TRUE, buffers |-> with_usage(withV, ib, "index", b.indices),
              vertex_buffer |-> vb, index_buffer |-> ib]

\* GeometryBuilder::build_buffers: VertexBuffer::new(vertices)?, then
\* IndexBuffer::new(indices)?; when the second fails the first is dropped
build_buffers(bufs, b, okv, oki) ==
    LET vb == NextBufferId(bufs)
        withV == with_usage(bufs, vb, "vertex", b.vertices)
        ib == NextBufferId(withV)
    IN  IF ~okv
        THEN [ok |-> FALSE, buffers |-> bufs, vertex_buffer |-> 0,
              index_buffer |-> 0]
        ELSE IF ~oki
        THEN [ok |-> FALSE, buffers |-> RcDrop(withV, vb), vertex_buffer |-> 0,
              index_buffer |-> 0]
        ELSE [ok |-> TRUE, buffers |-> with_usage(withV, ib, "index", b.indices),
              vertex_buffer |-> vb, index_buffer |-> ib]

\* the device calls of build_buffers
build_buffers_calls(b, okv, oki) ==
    << [op |-> "new_vertex_buffer", count |-> Len(b.vertices),
        usage |-> "Dynamic"] >>
    \o (IF okv
        THEN << [op |-> "set_vertex_buffer_data", data |-> b.vertices,
                 offset |-> 0],
                [op |-> "new_index_buffer", count |-> Len(b.indices),
                 usage |-> "Dynamic"] >>
        ELSE <<>>)
    \o (IF okv /\ oki
        THEN << [op |-> "set_index_buffer_data", data |-> b.indices,
                 offset |-> 0] >>
        ELSE <<>>)

\* build_buffers, the result in the caller's variables s and i
GeometryBuildBuffers(s, i, okv, oki) ==
    /\ ~panicked
    /\ s # i /\ handles[s] = 0 /\ handles[i] = 0
    /\ Cardinality({b \in BufferIds : buffers[b].state = "free"}) >= 2
    /\ LET r == build_buffers(buffers, builder, okv, oki)
       IN  /\ buffers' = r.buffers
           /\ handles' = [handles EXCEPT ![s] = r.vertex_buffer,
                                         ![i] = r.index_buffer]
           /\ lastOp' = [op |-> "GeometryBuilder::build_buffers",
                         result |-> IF r.ok THEN "Ok" ELSE "PlatformError"]
    /\ calls' = build_buffers_calls(builder, okv, oki)
    /\ OtherOp("GeometryBuilder::build_buffers", <<>>)
    /\ UNCHANGED <<batcherVars, meshes, panicked, builder, params>>

\* GeometryBuilder::build_mesh: build_buffers(ctx)?, then Mesh::indexed
GeometryBuildMesh(m, okv, oki) ==
    /\ ~panicked
    /\ meshes[m] = NoMesh
    /\ Cardinality({b \in BufferIds : buffers[b].state = "free"}) >= 2
    /\ LET r == build_buffers(buffers, builder, okv, oki)
       IN  /\ buffers' = r.buffers
           /\ meshes' = IF r.ok
                        THEN [meshes EXCEPT
                                ![m] = mesh_indexed(r.vertex_buffer, r.index_buffer)]
                        ELSE meshes
           /\ lastOp' = [op |-> "GeometryBuilder::build_mesh", mesh |-> m,
                         result |-> IF r.ok THEN "Ok" ELSE "PlatformError"]
    /\ calls' = build_buffers_calls(builder, okv, oki)
    /\ OtherOp("GeometryBuilder::build_mesh", <<>>)
    /\ UNCHANGED <<batcherVars, handles, panicked, builder, params>>

\* GeometryBuilder::into_data: the builder is consumed
GeometryIntoData ==
    /\ ~panicked
    /\ lastOp' = [op |-> "GeometryBuilder::into_data",
                  vertices |-> builder.vertices, indices |-> builder.indices]
    /\ builder' = geometry_builder_new
    /\ calls' = <<>>
    /\ OtherOp("GeometryBuilder::into_data", <<>>)
    /\ UNCHANGED <<batcherVars, resourceVars, panicked, params>>

(***************************************************************************)
(* DrawParams (mod.rs 97-155).  A Vec2 is a pair.                          *)
(***************************************************************************)
\* Option<Rectangle>::None
NoClip == "None"
\* what the caller gives the setters
Vec2Inputs == {<<0, 0>>, <<2, 3>>}
ClipInputs == {[x |-> 0, y |-> 0, width |-> 2, height |-> 1]}

\* impl Default for DrawParams
draw_params_default ==
    [position |-> <<0, 0>>, scale |-> <<1, 1>>, origin |-> <<0, 0>>,
     color |-> WHITE, clip |-> NoClip]

\* impl From<Vec2> for DrawParams
draw_params_from(position) == [draw_params_default EXCEPT !.position = position]

\* the chained setters
draw_params_position(p, position) == [p EXCEPT !.position = position]
draw_params_scale(p, scale) == [p EXCEPT !.scale = scale]
draw_params_origin(p, origin) == [p EXCEPT !.origin = origin]
draw_params_color(p, color) == [p EXCEPT !.color = color]
draw_params_clip(p, clip) == [p EXCEPT !.clip = clip]

\* an operation on the caller's DrawParams: op with argument arg leaves value
DrawParamsOp(op, arg, value) ==
    /\ ~panicked
    /\ params' = value
    /\ calls' = <<>>
    /\ lastOp' = [op |-> op, arg |-> arg]
    /\ OtherOp(op, <<>>)
    /\ UNCHANGED <<batcherVars, resourceVars, panicked, builder>>

DrawParamsNew == DrawParamsOp("DrawParams::new", <<>>, draw_params_default)
DrawParamsFrom(position) ==
    DrawParamsOp("DrawParams::from", position, draw_params_from(position))
DrawParamsPosition(position) ==
    DrawParamsOp("DrawParams::position", position,
                 draw_params_position(params, position))
DrawParamsScale(scale) ==
    DrawParamsOp("DrawParams::scale", scale, draw_params_scale(params, scale))
DrawParamsOrigin(origin) ==
    DrawParamsOp("DrawParams::origin", origin, draw_params_origin(params, origin))
DrawParamsColor(color) ==
    DrawParamsOp("DrawParams::color", color, draw_params_color(params, color))
DrawParamsClip(clip) ==
    DrawParamsOp("DrawParams::clip", clip, draw_params_clip(params, clip))

(***************************************************************************)
(* The state after GraphicsContext::new, with no buffer and no mesh.       *)
(***************************************************************************)
Init ==
    /\ texture = NoTexture
    /\ vertices = <<>>
    /\ sprite_count = 0
    /\ pushedUnder = <<>>
    /\ calls = <<>>
    /\ buffers = [b \in BufferIds |-> FreeBuffer]
    /\ handles = [s \in Slots |-> 0]
    /\ meshes = [m \in MeshIds |-> NoMesh]
    /\ panicked = FALSE
    /\ builder = geometry_builder_new
    /\ params = draw_params_default
    /\ lastOp = [op |-> "new"]
    /\ scenario = [stage |-> 0, draws |-> 0]

(***************************************************************************)
(* Spec: the sprite batcher, and one mesh that is drawn between sprites.   *)
(***************************************************************************)
Next ==
    \/ \E t \in Textures : set_texture(t)
    \/ \E x \in QuadInputs : push_quad(x)
    \/ flush
    \/ VertexBufferNew(1, <<11, 12, 13>>, TRUE)
    \/ MeshNew(1, 1)
    \/ \E t \in Textures : MeshSetTexture(1, t)
    \/ \E ok \in BOOLEAN : MeshDraw(1, ok)

Spec == Init /\ [][Next]_vars

(***************************************************************************)
(* Where the caller keeps a new value does not matter to the program: a    *)
(* new handle goes to the first variable that holds none, a new mesh to    *)
(* the first mesh variable that holds none.                                *)
(***************************************************************************)
\* the number of buffers allocated so far
Allocated(bufs) == Cardinality({b \in BufferIds : bufs[b].state # "free"})
MayAllocate == Allocated(buffers) < MaxAllocations
MayAllocateTwo == Allocated(buffers) + 2 <= MaxAllocations

FreeSlot(s) == handles[s] = 0 /\ \A r \in Slots : handles[r] = 0 => s <= r
FreeMesh(m) == meshes[m] = NoMesh /\ \A n \in MeshIds : meshes[n] = NoMesh => m <= n

(***************************************************************************)
(* SpecMesh: one mesh, its buffers and its draw range, with no sprite      *)
(* pushed.                                                                 *)
(***************************************************************************)
NextMesh ==
    \/ \E s \in Slots, d \in VertexInputs : FreeSlot(s) /\ VertexBufferNew(s, d, TRUE)
    \/ \E s \in Slots, d \in IndexInputs : FreeSlot(s) /\ IndexBufferNew(s, d, TRUE)
    \/ \E s \in Slots : MeshNew(s, 1)
    \/ \E s, i \in Slots : MeshIndexed(s, i, 1)
    \/ \E s \in Slots : MeshSetVertexBuffer(1, s)
    \/ \E i \in Slots : MeshSetIndexBuffer(1, i)
    \/ MeshResetIndexBuffer(1)
    \/ \E r \in RangeInputs : MeshSetDrawRange(1, r[1], r[2])
    \/ MeshResetDrawRange(1)
    \/ \E ok \in BOOLEAN : MeshDraw(1, ok)

SpecMesh == Init /\ [][NextMesh]_vars

(***************************************************************************)
(* SpecShare: handles of buffers, their clones and what they show.         *)
(***************************************************************************)
NextShare ==
    \/ \E s \in Slots : FreeSlot(s) /\ VertexBufferNew(s, <<11, 12, 13>>, TRUE)
    \/ \E s \in Slots : FreeSlot(s) /\ IndexBufferNew(s, <<0, 1, 2>>, TRUE)
    \/ \E s, d \in Slots : FreeSlot(d) /\ HandleClone(s, d)
    \/ \E s \in Slots : HandleDrop(s)
    \/ \E s \in Slots, o \in OffsetInputs : VertexBufferSetData(s, <<7>>, o)
    \/ \E s \in Slots, o \in OffsetInputs : IndexBufferSetData(s, <<7>>, o)

SpecShare == Init /\ [][NextShare]_vars

(***************************************************************************)
(* SpecLife: handles and meshes are created, cloned, changed and dropped.  *)
(***************************************************************************)
NextLife ==
    \/ \E s \in Slots : FreeSlot(s) /\ MayAllocate /\ VertexBufferNew(s, <<11, 12, 13>>, TRUE)
    \/ \E s \in Slots : FreeSlot(s) /\ MayAllocate /\ IndexBufferNew(s, <<0, 1, 2>>, TRUE)
    \/ \E s, d \in Slots : FreeSlot(d) /\ HandleClone(s, d)
    \/ \E s \in Slots : HandleDrop(s)
    \/ \E s \in Slots, m \in MeshIds : FreeMesh(m) /\ MeshNew(s, m)
    \/ \E s, i \in Slots, m \in MeshIds : FreeMesh(m) /\ MeshIndexed(s, i, m)
    \/ \E m, n \in MeshIds : FreeMesh(n) /\ MeshClone(m, n)
    \/ \E m \in MeshIds : MeshDrop(m)
    \/ \E m \in MeshIds, s \in Slots : MeshSetVertexBuffer(m, s)
    \/ \E m \in MeshIds, i \in Slots : MeshSetIndexBuffer(m, i)
    \/ \E m \in MeshIds : MeshResetIndexBuffer(m)

SpecLife == Init /\ [][NextLife]_vars

(***************************************************************************)
(* SpecCompose: meshes are cloned and their composition is changed.        *)
(***************************************************************************)
NextCompose ==
    \/ \E s \in Slots : FreeSlot(s) /\ MayAllocate /\ VertexBufferNew(s, <<11, 12, 13>>, TRUE)
    \/ \E s \in Slots : FreeSlot(s) /\ MayAllocate /\ IndexBufferNew(s, <<0, 1, 2>>, TRUE)
    \/ \E s \in Slots, m \in MeshIds : FreeMesh(m) /\ MeshNew(s, m)
    \/ \E m, n \in MeshIds : FreeMesh(n) /\ MeshClone(m, n)
    \/ \E m \in MeshIds, s \in Slots : MeshSetVertexBuffer(m, s)
    \/ \E m \in MeshIds, i \in Slots : MeshSetIndexBuffer(m, i)
    \/ \E m \in MeshIds : MeshResetIndexBuffer(m)
    \/ \E m \in MeshIds : MeshSetTexture(m, "A")
    \/ \E m \in MeshIds : MeshResetTexture(m)
    \/ \E m \in MeshIds : MeshSetDrawRange(m, 2, 3)
    \/ \E m \in MeshIds : MeshResetDrawRange(m)

SpecCompose == Init /\ [][NextCompose]_vars

(***************************************************************************)
(* SpecData: buffers are created with any usage, by a device that may      *)
(* fail, and written within and out of their bounds.                       *)
(***************************************************************************)
NextData ==
    \/ \E s \in DataSlots, d \in VertexInputs, u \in BufferUsages, ok \in BOOLEAN :
          FreeSlot(s) /\ MayAllocate /\ VertexBufferWithUsage(s, d, u, ok)
    \/ \E s \in DataSlots, d \in IndexInputs, u \in BufferUsages, ok \in BOOLEAN :
          FreeSlot(s) /\ MayAllocate /\ IndexBufferWithUsage(s, d, u, ok)
    \/ \E s \in DataSlots, d \in VertexInputs, ok \in BOOLEAN :
          FreeSlot(s) /\ MayAllocate /\ VertexBufferNew(s, d, ok)
    \/ \E s \in DataSlots, d \in IndexInputs, ok \in BOOLEAN :
          FreeSlot(s) /\ MayAllocate /\ IndexBufferNew(s, d, ok)
    \/ \E s \in DataSlots : HandleDrop(s)
    \/ \E s \in DataSlots, d \in UpdateInputs, o \in OffsetInputs :
          VertexBufferSetData(s, d, o)
    \/ \E s \in DataSlots, d \in UpdateInputs, o \in OffsetInputs :
          IndexBufferSetData(s, d, o)

SpecData == Init /\ [][NextData]_vars

(***************************************************************************)
(* SpecBuilder: shapes are added to a GeometryBuilder, its color is set    *)
(* and it is cleared.                                                      *)
(***************************************************************************)
NextBuilder ==
    \/ \E st \in StyleInputs, r \in RectangleInputs, f \in FaultInputs :
          GeometryRectangle(st, r, f)
    \/ \E st \in StyleInputs, r \in RectangleInputs, f \in FaultInputs :
          GeometryRoundedRectangle(st, r, f)
    \/ \E st \in StyleInputs, c \in CenterInputs, r \in RadiusInputs,
          f \in FaultInputs : GeometryCircle(st, c, r, f)
    \/ \E st \in StyleInputs, c \in CenterInputs, r \in RadiiInputs,
          f \in FaultInputs : GeometryEllipse(st, c, r, f)
    \/ \E st \in StyleInputs, ps \in PolygonInputs, f \in FaultInputs :
          GeometryPolygon(st, ps, f)
    \/ \E w \in WidthInputs, ps \in PolylineInputs, f \in FaultInputs :
          GeometryPolyline(w, ps, f)
    \/ \E c \in ColorInputs : GeometrySetColor(c)
    \/ GeometryClear

SpecBuilder == Init /\ [][NextBuilder]_vars

(***************************************************************************)
(* SpecBuild: the geometry of a GeometryBuilder is taken out of it, as     *)
(* buffers, as a mesh and as data.                                         *)
(***************************************************************************)
NextBuild ==
    \/ \E r \in RectangleInputs, f \in FaultInputs : GeometryRectangle(Fill, r, f)
    \/ \E ps \in {p \in PolygonInputs : Len(p) >= 3}, f \in FaultInputs :
          GeometryPolygon(Fill, ps, f)
    \/ \E ps \in PolylineInputs, f \in FaultInputs : GeometryPolyline(1, ps, f)
    \/ \E c \in ColorInputs : GeometrySetColor(c)
    \/ GeometryClear
    \/ \E okv, oki \in BOOLEAN : MayAllocateTwo /\ GeometryBuildBuffers(1, 2, okv, oki)
    \/ \E okv, oki \in BOOLEAN : MayAllocateTwo /\ GeometryBuildMesh(1, okv, oki)
    \/ GeometryIntoData

SpecBuild == Init /\ [][NextBuild]_vars

(***************************************************************************)
(* SpecParams: the caller builds a DrawParams.                             *)
(***************************************************************************)
NextParams ==
    \/ DrawParamsNew
    \/ \E v \in Vec2Inputs : DrawParamsFrom(v)
    \/ \E v \in Vec2Inputs : DrawParamsPosition(v)
    \/ \E v \in Vec2Inputs : DrawParamsScale(v)
    \/ \E v \in Vec2Inputs : DrawParamsOrigin(v)
    \/ \E c \in ColorInputs : DrawParamsColor(c)
    \/ \E r \in ClipInputs : DrawParamsClip(r)

SpecParams == Init /\ [][NextParams]_vars

(***************************************************************************)
(* SpecFlush: flush in every state of the batcher's fields, also those     *)
(* with sprites pending and no texture bound, which push_vertex allows and *)
(* the draw of a texture does not produce.                                 *)
(***************************************************************************)
NextFlush ==
    \/ \E t \in Textures : set_texture(t)
    \/ \E x \in QuadInputs : push_quad_unbound(x)
    \/ flush

SpecFlush == Init /\ [][NextFlush]_vars

(***************************************************************************)
(* SpecTransform: one mesh is drawn with the params of the caller.         *)
(***************************************************************************)
TransformInputs ==
    {DrawInputs(position, scale, origin, rotation) :
        position \in {<<0, 0>>, <<5, 7>>, <<0, 4>>},
        scale \in {<<1, 1>>, <<2, 3>>, <<3, 1>>},
        origin \in {<<0, 0>>, <<1, 2>>},
        rotation \in 0..3}

NextTransform ==
    \/ VertexBufferNew(1, <<11, 12, 13>>, TRUE)
    \/ MeshNew(1, 1)
    \/ \E p \in TransformInputs, ok \in BOOLEAN : MeshDrawWith(1, p, ok)

SpecTransform == Init /\ [][NextTransform]_vars

(***************************************************************************)
(* SpecWinding: VertexWinding (mesh.rs 74-92).  The caller flips a         *)
(* winding, the one the last call returned or another.                     *)
(***************************************************************************)
VertexWindings == {"Clockwise", "CounterClockwise"}

\* mutant: both arms return Clockwise
flipped_to_clockwise(w) == "Clockwise"

\* VertexWinding::flipped
flipped(w) ==
    CASE w = "Clockwise" -> "CounterClockwise"
      [] w = "CounterClockwise" -> "Clockwise"

\* the calls of flipped so far; again: the call is given what the call
\* before it returned
Flips == IF lastOp.op = "VertexWinding::flipped" THEN lastOp.flips ELSE 0

VertexWindingFlipped(w) ==
    /\ ~panicked
    /\ Flips < MaxFlips
    /\ lastOp' = [op |-> "VertexWinding::flipped", self |-> w,
                  result |-> flipped(w), flips |-> Flips + 1,
                  again |-> Flips > 0 /\ lastOp.result = w]
    /\ calls' = <<>>
    /\ OtherOp("VertexWinding::flipped", <<>>)
    /\ UNCHANGED <<batcherVars, resourceVars, panicked, builder, params>>

NextWinding == \E w \in VertexWindings : VertexWindingFlipped(w)

SpecWinding == Init /\ [][NextWinding]_vars

(***************************************************************************)
(* GraphicsContext::new, for a build with a given SPRITE_CAPACITY.         *)
(***************************************************************************)
\* the limit of the assertion at the head of GraphicsContext::new
SPRITE_LIMIT == 8191
\* the largest capacity whose indices fit u32: 4 * capacity - 1 <= 2^32 - 1
U32_INDEX_CAPACITY == 1073741824
\* the values of SPRITE_CAPACITY a build may have: small ones, the
\* program's, the capacities around the limit of the assertion, and around
\* 2^30
CapacityInputs == (1 .. 120) \cup {1024} \cup (8190 .. 8193)
                  \cup {U32_INDEX_CAPACITY, U32_INDEX_CAPACITY + 1}

INDEX_ARRAY == <<0, 1, 2, 2, 3, 0>>

\* whether a value is below 2^32
fits_u32(x) == x \div 65536 < 65536

\* mutant: the assertion rejects the limit itself
capacity_asserted_below_limit(cap) == cap < SPRITE_LIMIT

\* assert!(SPRITE_CAPACITY <= 8191, ..)
capacity_asserted(cap) == cap <= SPRITE_LIMIT

\* mutant: the offset of a quad is its first position in the index buffer
index_at_offset_by_position(i) ==
    INDEX_ARRAY[(i % INDEX_STRIDE) + 1] + (i \div INDEX_STRIDE) * INDEX_STRIDE

\* the index at position i (from 0) of the static index buffer:
\* vertex + i as u32 / INDEX_STRIDE as u32 * 4 (i is below 2^31 here, where
\* `as u32` keeps the value)
index_at(i) == INDEX_ARRAY[(i % INDEX_STRIDE) + 1] + (i \div INDEX_STRIDE) * 4

\* INDEX_ARRAY.iter().cycle().take(SPRITE_CAPACITY * INDEX_STRIDE)
\*     .enumerate().map(..).collect()
static_indices(cap) == [i \in 1..(cap * INDEX_STRIDE) |-> index_at(i - 1)]

\* the device calls of GraphicsContext::new
graphics_context_new_calls(cap) ==
    << [op |-> "new_vertex_buffer", count |-> cap * 4 * VERTEX_STRIDE,
        usage |-> "Dynamic"],
       [op |-> "new_index_buffer", count |-> cap * INDEX_STRIDE,
        usage |-> "Static"],
       [op |-> "set_index_buffer_data", data |-> static_indices(cap),
        offset |-> 0] >>

\* the program before GraphicsContext::new has run
InitNew ==
    /\ texture = NoTexture
    /\ vertices = <<>>
    /\ sprite_count = 0
    /\ pushedUnder = <<>>
    /\ calls = <<>>
    /\ buffers = [b \in BufferIds |-> FreeBuffer]
    /\ handles = [s \in Slots |-> 0]
    /\ meshes = [m \in MeshIds |-> NoMesh]
    /\ panicked = FALSE
    /\ builder = geometry_builder_new
    /\ params = draw_params_default
    /\ lastOp = [op |-> "start"]
    /\ scenario = [stage |-> 0, draws |-> 0]

GraphicsContextNew(cap) ==
    /\ lastOp.op = "start"
    /\ IF capacity_asserted(cap)
       THEN /\ calls' = graphics_context_new_calls(cap)
            /\ panicked' = FALSE
            /\ lastOp' = [op |-> "GraphicsContext::new", capacity |-> cap,
                          result |-> "Ok"]
       ELSE /\ calls' = <<>>
            /\ panicked' = TRUE
            /\ lastOp' = [op |-> "GraphicsContext::new", capacity |-> cap,
                          result |-> "panic"]
    /\ texture' = NoTexture
    /\ vertices' = <<>>
    /\ sprite_count' = 0
    /\ UNCHANGED <<pushedUnder, resourceVars, builder, params, scenario>>

NextNew == \E cap \in CapacityInputs : GraphicsContextNew(cap)

SpecNew == InitNew /\ [][NextNew]_vars

(***************************************************************************)
(* Properties of the sprite batcher.                                       *)
(***************************************************************************)
IsBatchDraw(c) == c.op = "draw"

\* C1: every draw call of the batcher submits its quads with the texture
\* that was bound when they were pushed (quads pushed while a texture was
\* bound), never with the texture requested after them.
C1_DrawUsesTextureOfPush ==
    \A i \in 1..Len(calls) :
        calls[i].op = "draw" =>
            \A k \in 1..Len(calls[i].pushedUnder) :
                calls[i].pushedUnder[k] # NoTexture =>
                    calls[i].pushedUnder[k] = calls[i].texture

\* C2: in the binding sequence A, A, B, B with sprites pushed after each
\* binding, no draw call is made before the A-to-B transition, exactly one is
\* made by it and none after it; set_texture with the bound texture makes no
\* device call and leaves the bound texture, the scratch data and
\* sprite_count as they were; the first binding binds and does not flush.
C2_SequenceDraws ==
    /\ scenario.stage \in 1..4 => scenario.draws = 0
    /\ scenario.stage = 5 => Len(BatchDraws(calls)) = 1
    /\ scenario.stage \in 5..8 => scenario.draws = 1

C2_SameTextureNoOp ==
    (lastOp'.op = "set_texture" /\ texture = lastOp'.texture) =>
        /\ calls' = <<>>
        /\ UNCHANGED <<texture, vertices, sprite_count>>

C2_FirstBinding ==
    (lastOp'.op = "set_texture" /\ texture = NoTexture) =>
        /\ calls' = <<>>
        /\ texture' = lastOp'.texture
        /\ UNCHANGED <<vertices, sprite_count>>

C2_OneFlushPerTextureChange ==
    /\ []C2_SequenceDraws
    /\ [][C2_SameTextureNoOp]_vars
    /\ [][C2_FirstBinding]_vars

\* the sequence A, A, B, B has been bound, with a sprite after each binding
C2_Witness == scenario.stage = 8 /\ scenario.draws = 1 /\ sprite_count = 2

\* C3: flush with sprites pending and a texture bound uploads the whole
\* scratch data at offset 0, then makes exactly one draw call, of
\* sprite_count * 6 indices, and leaves the scratch data empty and
\* sprite_count 0.
C3_FlushStep ==
    (lastOp'.op = "flush" /\ sprite_count > 0 /\ texture # NoTexture) =>
        /\ Len(calls') = 3
        /\ calls'[2] = [op |-> "set_vertex_buffer_data", data |-> vertices,
                        offset |-> 0]
        /\ calls'[3].op = "draw"
        /\ calls'[3].count = sprite_count * 6
        /\ calls'[3].texture = texture
        /\ Len(BatchDraws(calls')) = 1
        /\ vertices' = <<>>
        /\ sprite_count' = 0

C3_FlushSubmits == [][C3_FlushStep]_vars

\* a flush has submitted two sprites
C3_Witness ==
    /\ lastOp.op = "flush"
    /\ Len(calls) = 3
    /\ calls[3].count = 12
    /\ Len(calls[2].data) = 2 * 4 * VERTEX_STRIDE
    /\ sprite_count = 0

\* C4: flush with no sprite pending makes no device call and changes
\* neither the bound texture nor the scratch data nor sprite_count; two
\* flushes in a row make at most one draw call.
C4_EmptyFlushStep ==
    (lastOp'.op = "flush" /\ sprite_count = 0) =>
        /\ calls' = <<>>
        /\ UNCHANGED <<texture, vertices, sprite_count>>

C4_TwoFlushes ==
    (lastOp.op = "flush" /\ lastOp'.op = "flush") =>
        Len(BatchDraws(calls)) + Len(BatchDraws(calls')) <= 1

C4_EmptyFlushIsNoOp ==
    /\ [][C4_EmptyFlushStep]_vars
    /\ [][C4_TwoFlushes]_vars

\* a flush has run with a texture bound and nothing pending
C4_Witness ==
    /\ lastOp.op = "flush"
    /\ calls = <<>>
    /\ sprite_count = 0
    /\ texture # NoTexture

\* C5: Mesh::draw with sprites pending and a texture bound makes the
\* batcher's draw call for those sprites before the mesh's draw call, and
\* sprite_count is 0 when the mesh's draw call is made.
C5_MeshDrawStep ==
    (lastOp'.op = "Mesh::draw" /\ sprite_count > 0 /\ texture # NoTexture) =>
        /\ Len(BatchDraws(calls')) = 1
        /\ Len(MeshDraws(calls')) = 1
        /\ BatchDraws(calls')[1].count = sprite_count * 6
        /\ BatchDraws(calls')[1].pushedUnder = pushedUnder
        /\ FirstIndex(calls', IsBatchDraw, 1) < FirstIndex(calls', IsMeshDraw, 1)
        /\ MeshDraws(calls')[1].pending = 0
        /\ sprite_count' = 0

C5_MeshDrawFlushesFirst == [][C5_MeshDrawStep]_vars

\* a mesh was drawn while two sprites were pending
C5_Witness ==
    /\ lastOp.op = "Mesh::draw"
    /\ Len(calls) = 5
    /\ calls[3].op = "draw" /\ calls[3].count = 12
    /\ IsMeshDraw(calls[5])

(***************************************************************************)
(* Invariants of the sprite batcher.                                       *)
(***************************************************************************)
\* the operations that may flush the batch
FlushingOps == {"flush", "set_texture", "Mesh::draw"}

\* C18: in every state sprite_count is at most the capacity and the scratch
\* data is sprite_count quads of four vertices of VERTEX_STRIDE floats, so at
\* most capacity * 4 * VERTEX_STRIDE floats; every upload a flush makes, at
\* offset 0, ends within the vertex buffer.
C18_Pending ==
    /\ sprite_count <= capacity
    /\ Len(vertices) = sprite_count * 4 * VERTEX_STRIDE
    /\ Len(vertices) <= capacity * 4 * VERTEX_STRIDE

C18_UploadStep ==
    lastOp'.op \in FlushingOps =>
        \A i \in 1..Len(calls') :
            calls'[i].op = "set_vertex_buffer_data" =>
                /\ calls'[i].offset = 0
                /\ calls'[i].data = vertices
                /\ calls'[i].offset + Len(calls'[i].data) <= vertex_buffer_count

C20_RejectsExactlyOverflow ==
    lastOp.op = "GraphicsContext::new" =>
        (lastOp.result = "panic" <=> lastOp.capacity > U32_INDEX_CAPACITY)

\* C20: GraphicsContext::new panics for exactly the capacities above 8191,
\* among them every capacity whose largest index, 4 * capacity - 1, does not
\* fit u32; for every capacity it accepts, the index buffer has
\* capacity * 6 indices, the largest is 4 * capacity - 1 and all fit u32.
C20_RejectsAboveLimit ==
    lastOp.op = "GraphicsContext::new" =>
        /\ lastOp.result = "panic" <=> lastOp.capacity > 8191
        /\ lastOp.capacity > U32_INDEX_CAPACITY => lastOp.result = "panic"
        /\ lastOp.result = "panic" => (panicked /\ calls = <<>>)
        /\ lastOp.result = "Ok" =>
               /\ ~panicked
               /\ calls[3].op = "set_index_buffer_data"
               /\ Len(calls[3].data) = lastOp.capacity * 6
               /\ calls[3].data[6 * lastOp.capacity - 1] = 4 * lastOp.capacity - 1
               /\ \A k \in 1..Len(calls[3].data) :
                      /\ calls[3].data[k] <= 4 * lastOp.capacity - 1
                      /\ fits_u32(calls[3].data[k])

\* a capacity whose indices would not fit u32 has been rejected
C20_Witness ==
    /\ lastOp.op = "GraphicsContext::new"
    /\ lastOp.capacity > U32_INDEX_CAPACITY
    /\ lastOp.result = "panic"

\* C25: the index data GraphicsContext::new uploads, at offset 0 into an
\* index buffer of capacity * 6 indices, has capacity * 6 entries; the six
\* entries of quad k are 4k, 4k+1, 4k+2, 4k+2, 4k+3, 4k in this order, so
\* every index is below 4 * capacity and quad k refers to the vertices
\* 4k .. 4k+3 only.
C25_StaticIndexBuffer ==
    (lastOp.op = "GraphicsContext::new" /\ lastOp.result = "Ok") =>
        LET cap == lastOp.capacity
            data == calls[3].data
        IN  /\ calls[2] = [op |-> "new_index_buffer", count |-> cap * 6,
                           usage |-> "Static"]
            /\ calls[3].op = "set_index_buffer_data"
            /\ calls[3].offset = 0
            /\ Len(data) = cap * 6
            /\ \A k \in 0..(cap - 1) :
                   SubSeq(data, 6 * k + 1, 6 * k + 6) =
                       <<4 * k, 4 * k + 1, 4 * k + 2, 4 * k + 2, 4 * k + 3, 4 * k>>
            /\ \A i \in 1..Len(data) :
                   /\ data[i] < 4 * cap
                   /\ data[i] \in (4 * ((i - 1) \div 6))..(4 * ((i - 1) \div 6) + 3)

\* the index buffer of the program's capacity, 1024, has been built
C25_Witness ==
    /\ lastOp.op = "GraphicsContext::new"
    /\ lastOp.result = "Ok"
    /\ lastOp.capacity = 1024
    /\ Len(calls[3].data) = 6144
    /\ calls[3].data[6143] = 4095

\* C29: flush with sprites pending and no texture bound makes no device
\* call and leaves the scratch data, sprite_count and the texture as they
\* were; binding the first texture leaves them pending too; the next flush
\* with a texture bound uploads all of the scratch data and draws all of the
\* pending sprites, those enqueued without a texture among them.
C29_UnboundFlushStep ==
    (lastOp'.op = "flush" /\ sprite_count > 0 /\ texture = NoTexture) =>
        /\ calls' = <<>>
        /\ vertices' = vertices
        /\ sprite_count' = sprite_count
        /\ pushedUnder' = pushedUnder
        /\ texture' = NoTexture

C29_BindStep ==
    (lastOp'.op = "set_texture" /\ sprite_count > 0 /\ texture = NoTexture) =>
        /\ calls' = <<>>
        /\ vertices' = vertices
        /\ sprite_count' = sprite_count
        /\ pushedUnder' = pushedUnder
        /\ texture' # NoTexture

C29_SubmitStep ==
    (/\ lastOp'.op \in {"flush", "set_texture"}
     /\ \E k \in 1..Len(pushedUnder) : pushedUnder[k] = NoTexture
     /\ texture # NoTexture
     /\ lastOp'.op = "set_texture" => lastOp'.texture # texture) =>
        /\ Len(BatchDraws(calls')) = 1
        /\ BatchDraws(calls')[1].pushedUnder = pushedUnder
        /\ BatchDraws(calls')[1].count = 6 * Len(pushedUnder)
        /\ \E i \in 1..Len(calls') :
               /\ calls'[i].op = "set_vertex_buffer_data"
               /\ calls'[i].data = vertices
        /\ sprite_count' = 0
        /\ vertices' = <<>>

C29_UnboundFlushKeepsSprites ==
    /\ [][C29_UnboundFlushStep]_vars
    /\ [][C29_BindStep]_vars
    /\ [][C29_SubmitStep]_vars

\* flush has run with two sprites pending and no texture bound
C29_Witness ==
    /\ lastOp.op = "flush"
    /\ calls = <<>>
    /\ sprite_count = 2
    /\ Len(vertices) = 2 * 4 * VERTEX_STRIDE
    /\ texture = NoTexture

\* a flush has submitted a sprite that was enqueued with no texture bound
C29_WitnessSubmitted ==
    /\ lastOp.op = "flush"
    /\ Len(calls) = 3
    /\ calls[3].op = "draw"
    /\ calls[3].pushedUnder[1] = NoTexture
    /\ sprite_count = 0

(***************************************************************************)
(* Properties of Mesh::draw.                                               *)
(***************************************************************************)
\* the mesh that the last operation drew, and its draw call
DrawnMesh == meshes[lastOp'.mesh]
DrawCall == MeshDraws(calls')[1]

\* C6: every Mesh::draw makes exactly one draw call of the mesh:
\* draw_elements if and only if the mesh has an index buffer, else
\* draw_arrays; with no draw range set the range is (0, number of indices)
\* when indexed and (0, number of vertices) when not.
C6_DrawStep ==
    lastOp'.op = "Mesh::draw" =>
        /\ Len(MeshDraws(calls')) = 1
        /\ (DrawCall.op = "draw_elements") <=> (DrawnMesh.index_buffer # 0)
        /\ (DrawCall.op = "draw_arrays") <=> (DrawnMesh.index_buffer = 0)
        /\ DrawCall.vertex_buffer = DrawnMesh.vertex_buffer
        /\ DrawCall.index_buffer = DrawnMesh.index_buffer
        /\ ~DrawnMesh.draw_range.some =>
              /\ DrawCall.start = 0
              /\ DrawCall.count =
                    IF DrawnMesh.index_buffer # 0
                    THEN Len(buffers[DrawnMesh.index_buffer].data)
                    ELSE Len(buffers[DrawnMesh.vertex_buffer].data)

C6_OneDrawCall == [][C6_DrawStep]_vars

\* a mesh with 10 indices and no draw range has been drawn
C6_Witness ==
    /\ lastOp.op = "Mesh::draw"
    /\ Len(calls) = 2
    /\ calls[2].op = "draw_elements"
    /\ calls[2].start = 0 /\ calls[2].count = 10
    /\ ~meshes[1].draw_range.some

\* C7: set_draw_range(start, count) makes the next draw request start and
\* count, reset_draw_range makes it request all of the buffer in use; the
\* last of the calls decides.
C7_SetStep ==
    lastOp'.op = "Mesh::set_draw_range" =>
        meshes'[lastOp'.mesh] =
            [meshes[lastOp'.mesh] EXCEPT
                !.draw_range = SomeRange(lastOp'.start, lastOp'.count)]

C7_ResetStep ==
    lastOp'.op = "Mesh::reset_draw_range" =>
        meshes'[lastOp'.mesh] = [meshes[lastOp'.mesh] EXCEPT !.draw_range = NoRange]

C7_DrawStep ==
    lastOp'.op = "Mesh::draw" =>
        /\ Len(MeshDraws(calls')) = 1
        /\ DrawnMesh.draw_range.some =>
              /\ DrawCall.start = DrawnMesh.draw_range.start
              /\ DrawCall.count = DrawnMesh.draw_range.count
        /\ ~DrawnMesh.draw_range.some =>
              /\ DrawCall.start = 0
              /\ DrawCall.count =
                    IF DrawnMesh.index_buffer # 0
                    THEN Len(buffers[DrawnMesh.index_buffer].data)
                    ELSE Len(buffers[DrawnMesh.vertex_buffer].data)

C7_DrawRange ==
    /\ [][C7_SetStep]_vars
    /\ [][C7_ResetStep]_vars
    /\ [][C7_DrawStep]_vars

\* a mesh with 10 indices has been drawn after set_draw_range(2, 3)
C7_Witness ==
    /\ lastOp.op = "Mesh::draw"
    /\ Len(calls) = 2
    /\ calls[2].op = "draw_elements"
    /\ calls[2].start = 2 /\ calls[2].count = 3
    /\ buffers[meshes[1].index_buffer].count = 10

\* the set_default_uniforms calls of a sequence of device calls
UniformCalls(s) == SelectSeq(s, LAMBDA c : c.op = "set_default_uniforms")

\* C21: a Mesh::draw whose set_default_uniforms fails still makes exactly
\* one draw call of the mesh, after the failed call, with the buffers of the
\* mesh and the range a draw with working uniforms requests; nothing panics
\* and neither the mesh nor the buffers change.
C21_FailedUniformsStep ==
    (/\ lastOp'.op = "Mesh::draw"
     /\ Len(UniformCalls(calls')) = 1
     /\ ~UniformCalls(calls')[1].ok) =>
        /\ Len(MeshDraws(calls')) = 1
        /\ IsMeshDraw(calls'[Len(calls')])
        /\ calls'[Len(calls') - 1].op = "set_default_uniforms"
        /\ DrawCall.vertex_buffer = DrawnMesh.vertex_buffer
        /\ DrawCall.index_buffer = DrawnMesh.index_buffer
        /\ DrawCall.op =
              IF DrawnMesh.index_buffer # 0 THEN "draw_elements" ELSE "draw_arrays"
        /\ DrawCall.start =
              IF DrawnMesh.draw_range.some THEN DrawnMesh.draw_range.start ELSE 0
        /\ DrawCall.count =
              IF DrawnMesh.draw_range.some THEN DrawnMesh.draw_range.count
              ELSE IF DrawnMesh.index_buffer # 0
              THEN Len(buffers[DrawnMesh.index_buffer].data)
              ELSE Len(buffers[DrawnMesh.vertex_buffer].data)
        /\ ~panicked'
        /\ UNCHANGED <<meshes, buffers, handles>>

\* every Mesh::draw calls set_default_uniforms exactly once
C21_UniformsStep ==
    lastOp'.op = "Mesh::draw" => Len(UniformCalls(calls')) = 1

C21_DrawToleratesUniformFailure ==
    /\ [][C21_FailedUniformsStep]_vars
    /\ [][C21_UniformsStep]_vars

\* an indexed mesh with a draw range has been drawn while
\* set_default_uniforms failed
C21_Witness ==
    /\ lastOp.op = "Mesh::draw"
    /\ Len(calls) = 2
    /\ calls[1].op = "set_default_uniforms" /\ ~calls[1].ok
    /\ calls[2].op = "draw_elements"
    /\ calls[2].start = 2 /\ calls[2].count = 3

(***************************************************************************)
(* Properties of DrawParams.                                               *)
(***************************************************************************)
\* the options of p other than those of the set except are those of q
SameOptionsExcept(p, q, except) ==
    /\ DOMAIN p = DOMAIN q
    /\ \A f \in DOMAIN p \ except : p[f] = q[f]

\* the defaults the claim lists
C22_IsDefault(p, except) ==
    /\ {"position", "scale", "origin", "rotation", "color", "clip"} \subseteq DOMAIN p
    /\ "position" \notin except => p.position = <<0, 0>>
    /\ p.scale = <<1, 1>>
    /\ p.origin = <<0, 0>>
    /\ p.rotation = 0
    /\ p.color = WHITE
    /\ p.clip = NoClip

C22_NewStep ==
    lastOp'.op = "DrawParams::new" => C22_IsDefault(params', {})

C22_FromStep ==
    lastOp'.op = "DrawParams::from" =>
        /\ params'.position = lastOp'.arg
        /\ C22_IsDefault(params', {"position"})

\* the option a setter sets
SetterOption(op) ==
    CASE op = "DrawParams::position" -> "position"
      [] op = "DrawParams::scale" -> "scale"
      [] op = "DrawParams::origin" -> "origin"
      [] op = "DrawParams::color" -> "color"
      [] op = "DrawParams::clip" -> "clip"

SetterOps ==
    {"DrawParams::position", "DrawParams::scale", "DrawParams::origin",
     "DrawParams::color", "DrawParams::clip"}

C22_SetterStep ==
    lastOp'.op \in SetterOps =>
        /\ params'[SetterOption(lastOp'.op)] = lastOp'.arg
        /\ SameOptionsExcept(params', params, {SetterOption(lastOp'.op)})

\* C22: DrawParams::new gives position (0,0), scale (1,1), origin (0,0),
\* rotation 0, color white and no clip; the conversion of a position gives
\* that position and the defaults otherwise; each setter sets its own option
\* and leaves the others.
C22_DrawParamsDefaults ==
    /\ [][C22_NewStep]_vars
    /\ [][C22_FromStep]_vars
    /\ [][C22_SetterStep]_vars

(***************************************************************************)
(* Properties of the handles and of the composition of a mesh.             *)
(***************************************************************************)
\* C8: the clone of a handle refers to the buffer of the original and no
\* buffer is allocated by it; set_data through a handle changes the contents
\* that every handle of the same buffer shows.
C8_CloneStep ==
    lastOp'.op = "clone" =>
        /\ handles'[lastOp'.dst] = handles[lastOp'.slot]
        /\ handles'[lastOp'.slot] = handles[lastOp'.slot]
        /\ Allocated(buffers') = Allocated(buffers)
        /\ \A b \in BufferIds : buffers'[b].data = buffers[b].data

C8_SetDataStep ==
    (/\ lastOp'.op \in {"VertexBuffer::set_data", "IndexBuffer::set_data"}
     /\ ~panicked') =>
        \A h \in Slots :
            handles[h] = handles[lastOp'.slot] =>
                /\ handles'[h] = handles[h]
                /\ Contents(h)' =
                      Overwrite(Contents(lastOp'.slot), calls'[1].offset,
                                calls'[1].data)

C8_ClonesShareBuffer ==
    /\ [][C8_CloneStep]_vars
    /\ [][C8_SetDataStep]_vars

\* set_data through the original has changed what its clone shows
C8_Witness ==
    /\ lastOp.op = "VertexBuffer::set_data"
    /\ lastOp.slot = 1
    /\ handles[2] = handles[1]
    /\ Contents(2) = <<7, 12, 13>>

\* the operations that change the composition of a mesh
MeshMutators ==
    {"Mesh::set_vertex_buffer", "Mesh::set_index_buffer",
     "Mesh::reset_index_buffer", "Mesh::set_texture", "Mesh::reset_texture",
     "Mesh::set_draw_range", "Mesh::reset_draw_range"}

\* C9: the clone of a mesh has the composition of the original; a change
\* of the composition of one mesh changes no other mesh, and the buffers of
\* the other meshes stay as they are.
C9_CloneStep ==
    lastOp'.op = "Mesh::clone" =>
        /\ meshes'[lastOp'.dst] = meshes[lastOp'.mesh]
        /\ meshes'[lastOp'.mesh] = meshes[lastOp'.mesh]

C9_MutatorStep ==
    lastOp'.op \in MeshMutators =>
        \A n \in MeshIds :
            (n # lastOp'.mesh /\ meshes[n] # NoMesh) =>
                /\ meshes'[n] = meshes[n]
                /\ buffers'[meshes[n].vertex_buffer].state = "live"
                /\ buffers'[meshes[n].vertex_buffer].data =
                      buffers[meshes[n].vertex_buffer].data
                /\ meshes[n].index_buffer # 0 =>
                      buffers'[meshes[n].index_buffer].state = "live"

C9_CloneCopiesComposition ==
    /\ [][C9_CloneStep]_vars
    /\ [][C9_MutatorStep]_vars

\* two meshes with the texture and the draw range of a clone, after
\* set_vertex_buffer on the first
C9_Witness ==
    /\ lastOp.op = "Mesh::set_vertex_buffer"
    /\ lastOp.mesh = 1
    /\ meshes[2] # NoMesh
    /\ meshes[1].vertex_buffer # meshes[2].vertex_buffer
    /\ meshes[1].texture = "A" /\ meshes[2].texture = "A"
    /\ meshes[1].draw_range = meshes[2].draw_range
    /\ meshes[1].draw_range.some

\* the handles that refer to a buffer: the caller's, and those in meshes
Refs(b) ==
    Cardinality({s \in Slots : handles[s] = b})
    + Cardinality({m \in MeshIds : meshes[m].vertex_buffer = b})
    + Cardinality({m \in MeshIds : meshes[m].index_buffer = b})

\* C10: a buffer is released exactly when no handle refers to it: never
\* while a handle of the caller or of a mesh refers to it, and as soon as
\* none does.
C10_ReleasedWhenLastHandleDropped ==
    \A b \in BufferIds :
        buffers[b].state # "free" =>
            (buffers[b].state = "released" <=> Refs(b) = 0)

\* one buffer is released, another is held by two meshes and by the caller
C10_Witness ==
    \E b, c \in BufferIds :
        /\ buffers[b].state = "released"
        /\ buffers[c].state = "live"
        /\ Cardinality({m \in MeshIds : meshes[m].vertex_buffer = c}) = 2
        /\ \E s \in Slots : handles[s] = c

(***************************************************************************)
(* Properties of the contents of a buffer.                                 *)
(***************************************************************************)
SetDataOps == {"VertexBuffer::set_data", "IndexBuffer::set_data"}
WithUsageOps == {"VertexBuffer::with_usage", "IndexBuffer::with_usage"}

\* the buffer that the set_data of this step is called on, before the call
WrittenBuffer == buffers[handles[lastOp'.slot]]

\* C11: set_data(data, offset) with offset + len(data) over the capacity of
\* the buffer panics and changes no buffer; within the capacity it does not
\* panic and writes exactly the elements offset .. offset + len(data) - 1,
\* every other element and the capacity staying as they were.
C11_SetDataStep ==
    lastOp'.op \in SetDataOps =>
        LET data == lastOp'.data
            offset == lastOp'.offset
            old == WrittenBuffer.data
            new == buffers'[handles[lastOp'.slot]].data
        IN  IF offset + Len(data) > WrittenBuffer.count
            THEN panicked' /\ buffers' = buffers
            ELSE /\ ~panicked'
                 /\ Len(new) = Len(old)
                 /\ \A i \in 1..Len(old) :
                       new[i] = IF offset < i /\ i <= offset + Len(data)
                                THEN data[i - offset]
                                ELSE old[i]
                 /\ \A b \in BufferIds :
                       b # handles[lastOp'.slot] => buffers'[b] = buffers[b]

C11_SetDataBounds == [][C11_SetDataStep]_vars

\* a write of two elements at offset 2 of four, and a panic
C11_Witness ==
    /\ lastOp.op = "VertexBuffer::set_data"
    /\ lastOp.slot = 1
    /\ Contents(1) = <<21, 22, 8, 9>>

C11_WitnessPanic ==
    /\ panicked
    /\ lastOp.op \in SetDataOps
    /\ lastOp.offset + Len(lastOp.data) > buffers[handles[lastOp.slot]].count

\* C12: with_usage (and new) of either buffer gives a platform error and no
\* handle when the device cannot allocate, leaving every buffer as it was;
\* when it can, the new buffer has the capacity len(data) and the contents
\* data, whatever the usage.
C12_WithUsageStep ==
    lastOp'.op \in WithUsageOps =>
        LET s == lastOp'.slot
        IN  IF lastOp'.result = "Ok"
            THEN /\ handles'[s] # 0
                 /\ buffers[handles'[s]].state = "free"
                 /\ buffers'[handles'[s]].state = "live"
                 /\ buffers'[handles'[s]].count = Len(lastOp'.data)
                 /\ buffers'[handles'[s]].data = lastOp'.data
                 /\ buffers'[handles'[s]].kind =
                       IF lastOp'.op = "VertexBuffer::with_usage"
                       THEN "vertex" ELSE "index"
            ELSE /\ lastOp'.result = "PlatformError"
                 /\ handles'[s] = 0
                 /\ buffers' = buffers

C12_BufferCreation == [][C12_WithUsageStep]_vars

\* a buffer of four vertices has been created with the usage Static
C12_Witness ==
    /\ lastOp.op = "VertexBuffer::with_usage"
    /\ lastOp.usage = "Static"
    /\ lastOp.result = "Ok"
    /\ buffers[handles[lastOp.slot]].count = 4
    /\ Contents(lastOp.slot) = <<21, 22, 23, 24>>

\* the device has failed to allocate
C12_WitnessError ==
    /\ lastOp.op = "IndexBuffer::with_usage"
    /\ lastOp.result = "PlatformError"
    /\ handles[lastOp.slot] = 0

(***************************************************************************)
(* Properties of the GeometryBuilder.                                      *)
(***************************************************************************)
ShapeOps ==
    {"GeometryBuilder::rectangle", "GeometryBuilder::rounded_rectangle",
     "GeometryBuilder::circle", "GeometryBuilder::ellipse",
     "GeometryBuilder::polygon", "GeometryBuilder::polyline"}

\* the last operation was a shape call with this result
ShapeReturned(op, result) == op.op \in ShapeOps /\ op.result = result

\* C13: a shape call that returns a tessellation error leaves the vertices,
\* the indices and the color of the builder exactly as they were before it.
C13_ErrorStep ==
    ShapeReturned(lastOp', "TessellationError") => builder' = builder

C13_ShapeCallIsAtomic == [][C13_ErrorStep]_vars

\* a filled rectangle has failed on a builder that holds geometry
C13_Witness ==
    /\ lastOp.op = "GeometryBuilder::rectangle"
    /\ ~lastOp.style.stroke
    /\ lastOp.result = "TessellationError"
    /\ Len(builder.vertices) > 0
    /\ Len(builder.indices) > 0

\* C14: a polygon of fewer than 3 points, and a stroke of width zero, give
\* a tessellation error, and the builder is as it was before the call.
\* (The code has no check of the points or of the width.)
C14_DegenerateStep ==
    (/\ lastOp'.op \in ShapeOps
     /\ \/ lastOp'.op = "GeometryBuilder::polygon" /\ Len(lastOp'.outline) < 3
        \/ lastOp'.style.stroke /\ lastOp'.style.width = 0) =>
        /\ lastOp'.result = "TessellationError"
        /\ builder' = builder

C14_DegenerateShapeFails == [][C14_DegenerateStep]_vars

\* C15: every index of the builder is less than the number of its
\* vertices, in every state, so also in what build_buffers, build_mesh and
\* into_data take out; the indices a shape call adds refer to the vertices
\* that the call adds.
C15_IndicesInRange ==
    \A i \in 1..Len(builder.indices) :
        builder.indices[i] >= 0 /\ builder.indices[i] < Len(builder.vertices)

C15_ShapeStep ==
    ShapeReturned(lastOp', "Ok") =>
        /\ Len(builder'.indices) >= Len(builder.indices)
        /\ SubSeq(builder'.indices, 1, Len(builder.indices)) = builder.indices
        /\ \A i \in (Len(builder.indices) + 1)..Len(builder'.indices) :
              /\ builder'.indices[i] >= Len(builder.vertices)
              /\ builder'.indices[i] < Len(builder'.vertices)

C15_BuildStep ==
    /\ (/\ lastOp'.op \in {"GeometryBuilder::build_buffers",
                           "GeometryBuilder::build_mesh"}
        /\ lastOp'.result = "Ok") =>
            LET ib == buffers'[NextBufferId(buffers) + 1]
                vb == buffers'[NextBufferId(buffers)]
            IN  /\ vb.kind = "vertex" /\ ib.kind = "index"
                /\ vb.data = builder.vertices
                /\ ib.data = builder.indices
                /\ \A i \in 1..Len(ib.data) : ib.data[i] < vb.count
    /\ lastOp'.op = "GeometryBuilder::into_data" =>
            \A i \in 1..Len(lastOp'.indices) :
                lastOp'.indices[i] < Len(lastOp'.vertices)

C15_IndicesReferToVertices ==
    /\ []C15_IndicesInRange
    /\ [][C15_ShapeStep]_vars
    /\ [][C15_BuildStep]_vars

\* buffers have been built from two shapes, the second after the first
C15_Witness ==
    /\ lastOp.op = "GeometryBuilder::build_buffers"
    /\ lastOp.result = "Ok"
    /\ Len(builder.vertices) = 6
    /\ \E i \in 1..Len(builder.indices) : builder.indices[i] = 5
    /\ \E i \in 1..Len(builder.indices) : builder.indices[i] = 0
    /\ buffers[handles[2]].data = builder.indices

\* C16: clear leaves no vertex and no index and keeps the color, which is
\* the state of a new builder with that color; a shape added next has
\* indices from 0 that refer to its own vertices.
C16_ClearStep ==
    lastOp'.op = "GeometryBuilder::clear" =>
        /\ builder'.vertices = <<>>
        /\ builder'.indices = <<>>
        /\ builder'.color = builder.color
        /\ builder' = [geometry_builder_new EXCEPT !.color = builder.color]

C16_ShapeAfterClearStep ==
    (lastOp.op = "GeometryBuilder::clear" /\ ShapeReturned(lastOp', "Ok")) =>
        /\ Len(builder'.indices) > 0 =>
              \E i \in 1..Len(builder'.indices) : builder'.indices[i] = 0
        /\ \A i \in 1..Len(builder'.indices) :
              builder'.indices[i] < Len(builder'.vertices)
        /\ \A i \in 1..Len(builder'.vertices) :
              builder'.vertices[i].color = builder.color

C16_ClearEmptiesKeepsColor ==
    /\ [][C16_ClearStep]_vars
    /\ [][C16_ShapeAfterClearStep]_vars

\* a red builder that held geometry has been cleared
C16_Witness ==
    /\ lastOp.op = "GeometryBuilder::clear"
    /\ lastOp.cleared > 0
    /\ builder.color = RED
    /\ builder.vertices = <<>>
    /\ builder.indices = <<>>

\* C17: set_color changes no vertex and no index; the vertices a shape call
\* adds have the color of the builder at the call and uv (0, 0), and the
\* vertices before them stay as they were.
C17_SetColorStep ==
    lastOp'.op = "GeometryBuilder::set_color" =>
        /\ builder'.vertices = builder.vertices
        /\ builder'.indices = builder.indices
        /\ builder'.color = lastOp'.color

C17_ShapeStep ==
    ShapeReturned(lastOp', "Ok") =>
        /\ builder'.color = builder.color
        /\ Len(builder'.vertices) > Len(builder.vertices)
        /\ SubSeq(builder'.vertices, 1, Len(builder.vertices)) = builder.vertices
        /\ \A i \in (Len(builder.vertices) + 1)..Len(builder'.vertices) :
              /\ builder'.vertices[i].color = builder.color
              /\ builder'.vertices[i].uv = <<0, 0>>

C17_ColorOfLaterShapes ==
    /\ [][C17_SetColorStep]_vars
    /\ [][C17_ShapeStep]_vars

\* a white shape and a red shape in one builder
C17_Witness ==
    /\ ShapeReturned(lastOp, "Ok")
    /\ Len(builder.vertices) = 6
    /\ builder.vertices[1].color = WHITE
    /\ builder.vertices[6].color = RED
    /\ builder.color = RED

\* the corners of a rectangle
Corners(r) ==
    {<<r.x, r.y>>, <<r.x + r.width, r.y>>, <<r.x, r.y + r.height>>,
     <<r.x + r.width, r.y + r.height>>}

\* twice the signed area of the triangle a, b, c
Cross(a, b, c) ==
    (b[1] - a[1]) * (c[2] - a[2]) - (b[2] - a[2]) * (c[1] - a[1])

\* vs are the four corners of r, and is are two triangles over them of the
\* same winding that share a diagonal of r and have the area of r together
TwoTrianglesCover(vs, is, r) ==
    LET P(k) == vs[is[k] + 1].position
        t1 == {is[1], is[2], is[3]}
        t2 == {is[4], is[5], is[6]}
        a1 == Cross(P(1), P(2), P(3))
        a2 == Cross(P(4), P(5), P(6))
    IN  /\ {vs[i].position : i \in 1..4} = Corners(r)
        /\ \A k \in 1..6 : is[k] \in 0..3
        /\ Cardinality(t1) = 3 /\ Cardinality(t2) = 3
        /\ t1 \cup t2 = 0..3
        /\ \A i, j \in t1 \cap t2 :
               i # j => /\ vs[i + 1].position[1] # vs[j + 1].position[1]
                        /\ vs[i + 1].position[2] # vs[j + 1].position[2]
        /\ a1 # 0 /\ a2 # 0
        /\ (a1 > 0) <=> (a2 > 0)
        /\ (IF a1 > 0 THEN a1 + a2 ELSE 0 - a1 - a2) = 2 * r.width * r.height

\* C23: a fill rectangle that returns Ok appends exactly 4 vertices and 6
\* indices to the builder, empty or not; the 4 vertices are the corners of
\* the rectangle and the 6 indices, taken from the first new vertex, are two
\* triangles of the same winding that cover the rectangle.
C23_FillRectangleStep ==
    (/\ lastOp'.op = "GeometryBuilder::rectangle"
     /\ ~lastOp'.style.stroke
     /\ lastOp'.result = "Ok") =>
        LET nv == Len(builder.vertices)
            ni == Len(builder.indices)
        IN  /\ Len(builder'.vertices) = nv + 4
            /\ Len(builder'.indices) = ni + 6
            /\ SubSeq(builder'.vertices, 1, nv) = builder.vertices
            /\ SubSeq(builder'.indices, 1, ni) = builder.indices
            /\ \E r \in RectangleInputs :
                   TwoTrianglesCover(
                       SubSeq(builder'.vertices, nv + 1, nv + 4),
                       [k \in 1..6 |-> builder'.indices[ni + k] - nv], r)

C23_FillRectangle == [][C23_FillRectangleStep]_vars

\* a fill rectangle has been added to a builder that held two vertices
C23_Witness ==
    /\ lastOp.op = "GeometryBuilder::rectangle"
    /\ ~lastOp.style.stroke
    /\ lastOp.result = "Ok"
    /\ Len(builder.vertices) = 6
    /\ Len(builder.indices) = 6
    /\ builder.indices[1] = 2

\* a fill rectangle has been added to an empty builder
C23_WitnessEmpty ==
    /\ lastOp.op = "GeometryBuilder::rectangle"
    /\ ~lastOp.style.stroke
    /\ lastOp.result = "Ok"
    /\ Len(builder.vertices) = 4
    /\ builder.indices = <<0, 1, 2, 0, 2, 3>>

\* s is the beginning of t
IsPrefix(s, t) == Len(s) <= Len(t) /\ SubSeq(t, 1, Len(s)) = s

\* C26: after a shape call that returns Ok, the vertices and the indices
\* from before the call are the beginning of those after it; no operation of
\* the builder other than clear makes either shorter.
C26_AppendStep ==
    ShapeReturned(lastOp', "Ok") =>
        /\ IsPrefix(builder.vertices, builder'.vertices)
        /\ IsPrefix(builder.indices, builder'.indices)

C26_LengthStep ==
    lastOp'.op # "GeometryBuilder::clear" =>
        /\ Len(builder'.vertices) >= Len(builder.vertices)
        /\ Len(builder'.indices) >= Len(builder.indices)

C26_ShapesOnlyAppend ==
    /\ [][C26_AppendStep]_vars
    /\ [][C26_LengthStep]_vars

\* two filled polygons of three points are in one geometry
C26_Witness ==
    /\ ShapeReturned(lastOp, "Ok")
    /\ lastOp.op = "GeometryBuilder::polygon"
    /\ Len(builder.vertices) = 6
    /\ builder.indices = <<0, 1, 2, 3, 4, 5>>

\* C28: the range every draw call of Mesh::draw requests lies inside the
\* buffer it reads: start + count is at most the number of indices of an
\* indexed mesh and at most the number of vertices of a mesh without index
\* buffer.
C28_DrawStep ==
    lastOp'.op = "Mesh::draw" =>
        \A i \in 1..Len(calls') :
            /\ calls'[i].op = "draw_elements" =>
                  calls'[i].start + calls'[i].count
                      <= buffers[calls'[i].index_buffer].count
            /\ calls'[i].op = "draw_arrays" =>
                  calls'[i].start + calls'[i].count
                      <= buffers[calls'[i].vertex_buffer].count

C28_DrawRangeInsideBuffer == [][C28_DrawStep]_vars

(***************************************************************************)
(* The transform of Mesh::draw.                                            *)
(***************************************************************************)
\* v turned about the origin by a number of quarter turns
RECURSIVE Turned(_, _)
Turned(v, turns) ==
    IF turns = 0 THEN v ELSE Turned(<<0 - v[2], v[1]>>, turns - 1)

\* where the claim puts an object-space point: minus origin, times scale,
\* turned, plus position
Placed(p, v) ==
    LET moved == <<v[1] - p.origin[1], v[2] - p.origin[2]>>
        scaled == <<moved[1] * p.scale[1], moved[2] * p.scale[2]>>
        turned == Turned(scaled, p.rotation)
    IN  <<turned[1] + p.position[1], turned[2] + p.position[2]>>

\* points that determine an affine map of the plane, and one more
TestPoints == {<<0, 0>>, <<1, 0>>, <<0, 1>>, <<3, 4>>}

\* C27: the matrix Mesh::draw gives to set_default_uniforms takes an
\* object-space point to the projection of the view transform of the point
\* placed by the params: moved by -origin, scaled, rotated about Z, moved by
\* position; with rotation 0 that is (p - origin) * scale + position.
C27_TransformStep ==
    lastOp'.op = "Mesh::draw" =>
        LET p == lastOp'.params
            u == UniformCalls(calls')[1].transform
        IN  \A v \in TestPoints :
               /\ MatApply(u, v) =
                     MatApply(projection_matrix,
                              MatApply(transform_matrix, Placed(p, v)))
               /\ p.rotation = 0 =>
                     MatApply(u, v) =
                        MatApply(projection_matrix,
                           MatApply(transform_matrix,
                              <<(v[1] - p.origin[1]) * p.scale[1] + p.position[1],
                                (v[2] - p.origin[2]) * p.scale[2] + p.position[2]>>))

C27_ModelTransform == [][C27_TransformStep]_vars

\* a mesh has been drawn with an origin, a scale that differs in x and y, a
\* quarter turn and a position
C27_Witness ==
    /\ lastOp.op = "Mesh::draw"
    /\ lastOp.params = DrawInputs(<<5, 7>>, <<2, 3>>, <<1, 2>>, 1)
    /\ MatApply(calls[1].transform, <<3, 4>>) =
          MatApply(projection_matrix, MatApply(transform_matrix, <<-1, 11>>))

(***************************************************************************)
(* Properties of build_buffers and build_mesh.                             *)
(***************************************************************************)
BuildOps == {"GeometryBuilder::build_buffers", "GeometryBuilder::build_mesh"}

\* the positions in a sequence of device calls of the calls of an operation
CallsOf(cs, op) == {i \in 1..Len(cs) : cs[i].op = op}

\* C30: build_buffers and build_mesh create the vertex buffer before the
\* index buffer; when the creation of the index buffer fails after the
\* vertex buffer was created, the call returns the platform error, the
\* vertex buffer it created is released and no handle or mesh refers to it,
\* no other buffer changes, and the builder is as it was.
C30_OrderStep ==
    lastOp'.op \in BuildOps =>
        /\ calls'[1].op = "new_vertex_buffer"
        /\ \A i \in CallsOf(calls', "new_index_buffer") :
               \A j \in CallsOf(calls', "new_vertex_buffer") : j < i

C30_IndexFailureStep ==
    (/\ lastOp'.op \in BuildOps
     /\ CallsOf(calls', "new_index_buffer") # {}
     /\ CallsOf(calls', "set_index_buffer_data") = {}) =>
        /\ lastOp'.result = "PlatformError"
        /\ builder' = builder
        /\ handles' = handles
        /\ meshes' = meshes
        /\ \E b \in BufferIds :
               /\ buffers[b].state = "free"
               /\ buffers'[b].state = "released"
               /\ buffers'[b].kind = "vertex"
               /\ buffers'[b].strong = 0
               /\ \A s \in Slots : handles'[s] # b
               /\ \A m \in MeshIds :
                      meshes'[m].vertex_buffer # b /\ meshes'[m].index_buffer # b
               /\ \A c \in BufferIds \ {b} : buffers'[c] = buffers[c]

C30_BuildReleasesOnIndexFailure ==
    /\ [][C30_OrderStep]_vars
    /\ [][C30_IndexFailureStep]_vars

\* build_buffers of a builder that holds geometry has failed at the index
\* buffer, and the vertex buffer it had created is released
C30_Witness ==
    /\ lastOp.op = "GeometryBuilder::build_buffers"
    /\ lastOp.result = "PlatformError"
    /\ Len(calls) = 3
    /\ calls[3].op = "new_index_buffer"
    /\ Len(builder.vertices) > 0
    /\ calls[1].count = Len(builder.vertices)
    /\ \E b \in BufferIds :
           /\ buffers[b].state = "released"
           /\ buffers[b].kind = "vertex"
    /\ \A c \in BufferIds : buffers[c].state # "live"
    /\ \A s \in Slots : handles[s] = 0

(***************************************************************************)
(* Properties of VertexWinding.                                            *)
(***************************************************************************)
\* C24: flipped returns a winding other than the one it is given, and
\* flipped of what flipped returned is the winding the first call was given.
C24_FlippedStep ==
    lastOp'.op = "VertexWinding::flipped" =>
        /\ lastOp'.result \in VertexWindings
        /\ lastOp'.result # lastOp'.self

C24_FlippedTwiceStep ==
    (/\ lastOp.op = "VertexWinding::flipped"
     /\ lastOp'.op = "VertexWinding::flipped"
     /\ lastOp'.self = lastOp.result) =>
        lastOp'.result = lastOp.self

C24_FlippedIsInvolution ==
    /\ [][C24_FlippedStep]_vars
    /\ [][C24_FlippedTwiceStep]_vars

\* what flipped returned for CounterClockwise has been flipped
C24_Witness ==
    /\ lastOp.op = "VertexWinding::flipped"
    /\ lastOp.again
    /\ lastOp.self = "Clockwise"
    /\ lastOp.result = "CounterClockwise"

====
